---- MODULE Spec2Model ----
(***************************************************************************)
(* Model of the request authentication engine of the backend:              *)
(*   backend/utils/crypto.js       generateKeyThumbprint, verifyDPoP,      *)
(*                                 generateFingerprintHash, similarity     *)
(*   backend/middleware/security.js compareFingerprints (unnamed/part_000) *)
(*   backend/middleware/auth.js    jtiCache, its cleaning timer and        *)
(*                                 authenticateToken                       *)
(*   backend/routes/auth.js        DELETE /device/:keyId (revocation)      *)
(*                                                                         *)
(* Node runs the handlers on one event loop: a handler runs without        *)
(* interruption from one await to the next, and other handlers and timers  *)
(* run only while it is suspended at an await.  Each action below is one   *)
(* such run-to-completion segment of the code.                             *)
(***************************************************************************)
EXTENDS Integers, Sequences, FiniteSets, TLC

(***************************************************************************)
(* Bounds of the model.                                                    *)
(***************************************************************************)
\* number of requests that can be in flight at the same time
NumRequests == 2
\* jti values are 1..NumJti; 0 stands for a falsy jti (absent, "" or 0)
NumJti == 2
\* how far beyond the +-300 s boundary the iat values of the proofs range
SkewSlack == 1
\* JTI_CACHE_SIZE of auth.js:7 is 10000; the model scales it down so that the
\* cache can actually overflow within NumJti identifiers
JTI_CACHE_SIZE == 1

(***************************************************************************)
(* Program constants.                                                      *)
(***************************************************************************)
\* crypto.js:58  Math.abs(now - payload.iat) > 300
DPOP_WINDOW == 300
\* the clock of the model, Date.now() in milliseconds, starts here; the real
\* clock is about 1.7e12, the model only needs now > DPOP_WINDOW seconds
EpochMs == 1000000

Undefined == "undefined"

(***************************************************************************)
(* Strings whose characters matter are sequences of one-character strings. *)
(***************************************************************************)
LowerCase == <<"a","b","c","d","e","f","g","h","i","j","k","l","m",
               "n","o","p","q","r","s","t","u","v","w","x","y","z">>
UpperCase == <<"A","B","C","D","E","F","G","H","I","J","K","L","M",
               "N","O","P","Q","R","S","T","U","V","W","X","Y","Z">>

\* String.prototype.toUpperCase, one character
UpperChar(c) ==
  IF \E i \in 1..26 : LowerCase[i] = c
  THEN UpperCase[CHOOSE i \in 1..26 : LowerCase[i] = c]
  ELSE c

\* String.prototype.toUpperCase
ToUpperCase(s) == [i \in 1..Len(s) |-> UpperChar(s[i])]

Abs(n) == IF n < 0 THEN -n ELSE n

(***************************************************************************)
(* JWKs.  A parsed JWK is an object: a sequence of <<field, value>> pairs  *)
(* in the caller's order.                                                  *)
(***************************************************************************)
\* jwk.field: the value, or undefined when the field is absent
Field(jwk, f) ==
  IF \E i \in 1..Len(jwk) : jwk[i][1] = f
  THEN jwk[CHOOSE i \in 1..Len(jwk) : jwk[i][1] = f][2]
  ELSE Undefined

\* JSON.stringify of an object: properties whose value is undefined are left out
JsonStringify(obj) == SelectSeq(obj, LAMBDA p : p[2] # Undefined)

\* crypto.createHash('sha256')...digest('base64url'): collision-free on the model's inputs
Sha256(s) == <<"sha256", s>>

\* a thumbprint taken over the caller's object as it is
ThumbprintOfSuppliedObject(jwk) == Sha256(JsonStringify(jwk))

\* crypto.js generateKeyThumbprint
generateKeyThumbprint(jwk) ==
  LET canonicalJwk == << <<"crv", Field(jwk, "crv")>>, <<"kty", Field(jwk, "kty")>>,
                         <<"x", Field(jwk, "x")>>, <<"y", Field(jwk, "y")>> >>
  IN  Sha256(JsonStringify(canonicalJwk))

\* the device key pairs of the model: private key d, public point (x, y)
PrivateKeys == {1, 2}
PublicX(d) == IF d = 1 THEN "x1" ELSE "x2"
PublicY(d) == IF d = 1 THEN "y1" ELSE "y2"
PublicJwk(d) == << <<"kty", "EC">>, <<"crv", "P-256">>, <<"x", PublicX(d)>>, <<"y", PublicY(d)>> >>

(***************************************************************************)
(* DPoP proofs.  A proof is the compact JWS header.payload.signature:      *)
(*   segments        number of non-empty dot-separated parts, 0 when the   *)
(*                   header is absent or empty                             *)
(*   alg, typ        header fields                                         *)
(*   htm, htu, iat, jti   payload claims (iat, jti: 0 when falsy)          *)
(*   signer          private key that signed header.payload, 0 when the    *)
(*                   signature is no valid signature of any device key     *)
(***************************************************************************)
\* a verification that accepts the signature of any device key
SignatureOfAnyKey(proof, publicKeyJwk) ==
  proof.segments = 3 /\ proof.signer \in {1, 2}

\* jose importJWK + jwtVerify(dpopHeader, publicKey, {algorithms: ['ES256']})
SignatureVerifies(proof, publicKeyJwk) ==
  /\ proof.segments = 3
  /\ Field(publicKeyJwk, "kty") = "EC"
  /\ Field(publicKeyJwk, "crv") = "P-256"
  /\ proof.signer \in PrivateKeys
  /\ Field(publicKeyJwk, "x") = PublicX(proof.signer)
  /\ Field(publicKeyJwk, "y") = PublicY(proof.signer)

\* Math.floor(Date.now() / 1000)
NowSeconds(nowMs) == nowMs \div 1000

Invalid(msg) == [valid |-> FALSE, error |-> msg, jti |-> 0, iat |-> 0]

\* crypto.js verifyDPoP: every throw is caught and returned as valid:false
verifyDPoPMethodCheck(proof, method) == proof.htm # ToUpperCase(method)

\* a timestamp check with an exclusive boundary
TimestampCheckExclusive(proof, nowMs) ==
  proof.iat = 0 \/ Abs(NowSeconds(nowMs) - proof.iat) >= DPOP_WINDOW

\* crypto.js:56-60
verifyDPoPTimestampCheck(proof, nowMs) ==
  proof.iat = 0 \/ Abs(NowSeconds(nowMs) - proof.iat) > DPOP_WINDOW

\* a verification that checks the signature before the claims
verifyDPoPSignatureFirst(dpopHeader, method, url, publicKeyJwk, nowMs) ==
  IF dpopHeader.segments = 0 THEN Invalid("Missing DPoP header")
  ELSE IF dpopHeader.segments < 3 THEN Invalid("Invalid DPoP format")
  ELSE IF dpopHeader.alg # "ES256" \/ dpopHeader.typ # "dpop+jwt"
       THEN Invalid("Invalid DPoP header")
  ELSE IF ~SignatureVerifies(dpopHeader, publicKeyJwk)
       THEN Invalid("signature verification failed")
  ELSE IF verifyDPoPMethodCheck(dpopHeader, method) THEN Invalid("DPoP method mismatch")
  ELSE IF dpopHeader.htu # url THEN Invalid("DPoP URL mismatch")
  ELSE IF verifyDPoPTimestampCheck(dpopHeader, nowMs) THEN Invalid("DPoP timestamp invalid")
  ELSE IF dpopHeader.jti = 0 THEN Invalid("Missing DPoP JTI")
  ELSE [valid |-> TRUE, error |-> "", jti |-> dpopHeader.jti, iat |-> dpopHeader.iat]

verifyDPoP(dpopHeader, method, url, publicKeyJwk, nowMs) ==
  IF dpopHeader.segments = 0 THEN Invalid("Missing DPoP header")
  ELSE IF dpopHeader.segments < 3 THEN Invalid("Invalid DPoP format")
  ELSE IF dpopHeader.alg # "ES256" \/ dpopHeader.typ # "dpop+jwt"
       THEN Invalid("Invalid DPoP header")
  ELSE IF verifyDPoPMethodCheck(dpopHeader, method) THEN Invalid("DPoP method mismatch")
  ELSE IF dpopHeader.htu # url THEN Invalid("DPoP URL mismatch")
  ELSE IF verifyDPoPTimestampCheck(dpopHeader, nowMs) THEN Invalid("DPoP timestamp invalid")
  ELSE IF dpopHeader.jti = 0 THEN Invalid("Missing DPoP JTI")
  ELSE IF ~SignatureVerifies(dpopHeader, publicKeyJwk)
       THEN Invalid("signature verification failed")
  ELSE [valid |-> TRUE, error |-> "", jti |-> dpopHeader.jti, iat |-> dpopHeader.iat]

(***************************************************************************)
(* JavaScript values of a parsed fingerprint: a string (its characters), a *)
(* number or undefined (the field is absent).                              *)
(***************************************************************************)
Str(s) == [t |-> "string", s |-> s, n |-> 0]
Num(n) == [t |-> "number", s |-> <<>>, n |-> n]
Undef == [t |-> "undefined", s |-> <<>>, n |-> 0]

\* ToBoolean: undefined, '' and 0 are falsy
Truthy(v) == (v.t = "string" /\ v.s # <<>>) \/ (v.t = "number" /\ v.n # 0)

\* a || b
OrElse(a, b) == IF Truthy(a) THEN a ELSE b

\* the printable ASCII characters, code 32 to 126 (code 96 is spelled out)
Ascii == <<" ","!","\"","#","$","%","&","'","(",")","*","+",",","-",".","/",
           "0","1","2","3","4","5","6","7","8","9",":",";","<","=",">","?",
           "@","A","B","C","D","E","F","G","H","I","J","K","L","M","N","O",
           "P","Q","R","S","T","U","V","W","X","Y","Z","[","\\","]","^","_",
           "grave","a","b","c","d","e","f","g","h","i","j","k","l","m","n","o",
           "p","q","r","s","t","u","v","w","x","y","z","{","|","}","~">>

\* String.prototype.charCodeAt
CharCode(c) == 31 + CHOOSE i \in 1..Len(Ascii) : Ascii[i] = c

DecimalDigits == <<"0","1","2","3","4","5","6","7","8","9">>
HexDigits == <<"0","1","2","3","4","5","6","7","8","9","a","b","c","d","e","f">>

\* Number.prototype.toString(radix) of a non-negative integer
RECURSIVE ToRadix(_, _, _)
ToRadix(n, radix, digits) ==
  IF n < radix THEN <<digits[n + 1]>>
  ELSE ToRadix(n \div radix, radix, digits) \o <<digits[(n % radix) + 1]>>

\* JSON.stringify of a string without characters to escape, or of a number
JsonValue(v) ==
  IF v.t = "string" THEN <<"\"">> \o v.s \o <<"\"">>
  ELSE ToRadix(v.n, 10, DecimalDigits)

\* unsigned 32-bit integers are pairs <<high 16 bits, low 16 bits>>
Word == 65536

IsUint32(h) == h[1] \in 0..(Word - 1) /\ h[2] \in 0..(Word - 1)

Pow2(k) == 2^k

\* a ^ b on 16-bit operands
RECURSIVE Xor16(_, _)
Xor16(a, b) ==
  IF a = 0 THEN b
  ELSE IF b = 0 THEN a
  ELSE 2 * Xor16(a \div 2, b \div 2) + ((a + b) % 2)

\* h << k, kept to 32 bits
Shl32(h, k) ==
  IF k >= 16 THEN <<(h[2] * Pow2(k - 16)) % Word, 0>>
  ELSE LET x == h[2] * Pow2(k)
       IN  <<(h[1] * Pow2(k) + (x \div Word)) % Word, x % Word>>

\* a + b, kept to 32 bits
Add32(a, b) ==
  LET lo == a[2] + b[2] IN <<(a[1] + b[1] + (lo \div Word)) % Word, lo % Word>>

\* a hexadecimal string padded to eight digits
Hex32Padded(h) ==
  LET high == ToRadix(h[1], 16, HexDigits)
      low == ToRadix(h[2], 16, HexDigits)
  IN  [i \in 1..(4 - Len(high)) |-> "0"] \o high \o [i \in 1..(4 - Len(low)) |-> "0"] \o low

\* (n >>> 0).toString(16): no leading zeros
Hex32(h) ==
  IF h[1] = 0 THEN ToRadix(h[2], 16, HexDigits)
  ELSE LET low == ToRadix(h[2], 16, HexDigits)
       IN  ToRadix(h[1], 16, HexDigits)
             \o [i \in 1..(4 - Len(low)) |-> "0"] \o low

\* one round of the loop of generateFingerprintHash (crypto.js:210-211).  The code
\* adds the shifted values as doubles and truncates at the next ^= or at >>> 0; the
\* sums stay below 2^53, so the result is the sum modulo 2^32
FnvRound(hash, code) ==
  LET x == <<hash[1], Xor16(hash[2], code)>>
  IN  Add32(x, Add32(Shl32(x, 1), Add32(Shl32(x, 4),
        Add32(Shl32(x, 7), Add32(Shl32(x, 8), Shl32(x, 24))))))

\* the loop of crypto.js:209-212 over str[from..to], split in halves
RECURSIVE FnvLoop(_, _, _, _)
FnvLoop(hash, str, from, to) ==
  IF from > to \/ ~IsUint32(hash) THEN hash
  ELSE IF from = to THEN FnvRound(hash, CharCode(str[from]))
  ELSE LET mid == (from + to) \div 2
       IN  FnvLoop(FnvLoop(hash, str, from, mid), str, mid + 1, to)

\* 2166136261 = 0x811C9DC5
FnvOffsetHigh == 33052
FnvOffsetLow == 40389

FingerprintKeys == <<"ua", "lang", "tz", "scr", "hwc", "mem", "platform", "webgl">>
\* Object.keys(normalized).sort()
SortedFingerprintKeys == <<"hwc", "lang", "mem", "platform", "scr", "tz", "ua", "webgl">>

KeyChars(k) ==
  CASE k = "ua" -> <<"u","a">>
    [] k = "lang" -> <<"l","a","n","g">>
    [] k = "tz" -> <<"t","z">>
    [] k = "scr" -> <<"s","c","r">>
    [] k = "hwc" -> <<"h","w","c">>
    [] k = "mem" -> <<"m","e","m">>
    [] k = "platform" -> <<"p","l","a","t","f","o","r","m">>
    [] k = "webgl" -> <<"w","e","b","g","l">>

\* crypto.js:193-202: missing and falsy fields become '' (0 for hwc and mem)
Normalized(fingerprintData) ==
  [k \in DOMAIN fingerprintData |->
     OrElse(fingerprintData[k], IF k \in {"hwc", "mem"} THEN Num(0) ELSE Str(<<>>))]

\* JSON.stringify(normalized, Object.keys(normalized).sort())
RECURSIVE JsonMembers(_, _)
JsonMembers(obj, i) ==
  IF i > Len(SortedFingerprintKeys) THEN <<>>
  ELSE (IF i > 1 THEN <<",">> ELSE <<>>)
         \o <<"\"">> \o KeyChars(SortedFingerprintKeys[i]) \o <<"\"", ":">>
         \o JsonValue(obj[SortedFingerprintKeys[i]])
         \o JsonMembers(obj, i + 1)

StableString(normalized) == <<"{">> \o JsonMembers(normalized, 1) \o <<"}">>

\* crypto.js generateFingerprintHash of a fingerprint object
generateFingerprintHash(fingerprintData) ==
  LET str == StableString(Normalized(fingerprintData))
  IN  Hex32(FnvLoop(<<FnvOffsetHigh, FnvOffsetLow>>, str, 1, Len(str)))

(***************************************************************************)
(* Fingerprint similarity (crypto.js:221-353).  Scores are exact rationals *)
(* <<numerator, denominator>>; the weights are in hundredths.              *)
(***************************************************************************)
Min2(a, b) == IF a < b THEN a ELSE b
Max2(a, b) == IF a > b THEN a ELSE b

IsDigit(c) == \E i \in 1..10 : DecimalDigits[i] = c
DigitValue(c) == (CHOOSE i \in 1..10 : DecimalDigits[i] = c) - 1

\* the patterns of extractBrowserInfo, in the order the code tries them
BrowserPatterns == << <<"C","h","r","o","m","e">>, <<"F","i","r","e","f","o","x">>, <<"S","a","f","a","r","i">>, <<"E","d","g","e">>, <<"O","p","e","r","a">> >>

\* /Name\/(\d+)/ matches ua at position i
PatternAt(ua, name, i) ==
  /\ i + Len(name) + 1 <= Len(ua)
  /\ SubSeq(ua, i, i + Len(name) - 1) = name
  /\ ua[i + Len(name)] = "/"
  /\ IsDigit(ua[i + Len(name) + 1])

PatternMatches(ua, name) == \E i \in 1..Len(ua) : PatternAt(ua, name, i)

\* parseInt(match[1]): the run of digits that starts at position i
RECURSIVE DigitRun(_, _, _)
DigitRun(ua, i, value) ==
  IF value < 0 \/ i > Len(ua) THEN value
  ELSE IF ~IsDigit(ua[i]) THEN value
  ELSE DigitRun(ua, i + 1, 10 * value + DigitValue(ua[i]))

\* extractBrowserInfo: index of the first pattern that matches (0: null) and its version
extractBrowserInfo(ua) ==
  IF \A p \in 1..Len(BrowserPatterns) : ~PatternMatches(ua, BrowserPatterns[p])
  THEN [browser |-> 0, majorVersion |-> 0]
  ELSE LET p == CHOOSE q \in 1..Len(BrowserPatterns) :
                  /\ PatternMatches(ua, BrowserPatterns[q])
                  /\ \A q2 \in 1..(q - 1) : ~PatternMatches(ua, BrowserPatterns[q2])
           name == BrowserPatterns[p]
           i == CHOOSE k \in 1..Len(ua) :
                  PatternAt(ua, name, k) /\ \A k2 \in 1..(k - 1) : ~PatternAt(ua, name, k2)
       IN  [browser |-> p, majorVersion |-> DigitRun(ua, i + Len(name) + 1, 0)]

\* one row of the matrix of calculateLevenshteinDistance: row holds the cells
\* matrix[i][0..j-1] computed so far, prev is matrix[i-1]
RECURSIVE LevenshteinRow(_, _, _, _, _)
LevenshteinRow(prev, row, ch, str1, j) ==
  IF Len(row) = 0 \/ j > Len(str1) THEN row
  ELSE LET cell == IF ch = str1[j] THEN prev[j]
                   ELSE Min2(prev[j] + 1, Min2(row[j] + 1, prev[j + 1] + 1))
       IN  LevenshteinRow(prev, Append(row, cell), ch, str1, j + 1)

RECURSIVE LevenshteinRows(_, _, _, _)
LevenshteinRows(prev, str1, str2, i) ==
  IF Len(prev) = 0 \/ i > Len(str2) THEN prev
  ELSE LevenshteinRows(LevenshteinRow(prev, <<i>>, str2[i], str1, 1), str1, str2, i + 1)

\* crypto.js calculateLevenshteinDistance: matrix[str2.length][str1.length]
calculateLevenshteinDistance(str1, str2) ==
  LevenshteinRows([j \in 1..(Len(str1) + 1) |-> j - 1], str1, str2, 1)[Len(str1) + 1]

\* a string similarity relative to the length of the first string
StringSimilarityByFirst(str1, str2) ==
  LET longer == IF Len(str1) > Len(str2) THEN str1 ELSE str2
      shorter == IF Len(str1) > Len(str2) THEN str2 ELSE str1
  IN  <<Max2(0, Len(str1) - calculateLevenshteinDistance(longer, shorter)), Len(str1)>>

\* crypto.js calculateStringSimilarity, on two non-empty different strings
calculateStringSimilarity(str1, str2) ==
  LET longer == IF Len(str1) > Len(str2) THEN str1 ELSE str2
      shorter == IF Len(str1) > Len(str2) THEN str2 ELSE str1
  IN  <<Len(longer) - calculateLevenshteinDistance(longer, shorter), Len(longer)>>

\* a user agent similarity that loses a fifth per major version
UserAgentSimilarityOverFive(stored, current) ==
  IF ~Truthy(stored) \/ ~Truthy(current) THEN <<0, 1>>
  ELSE IF stored = current THEN <<1, 1>>
  ELSE IF stored.t # "string" \/ current.t # "string" THEN <<0, 1>>
  ELSE LET storedInfo == extractBrowserInfo(stored.s)
           currentInfo == extractBrowserInfo(current.s)
       IN  IF storedInfo.browser = 0 \/ currentInfo.browser = 0
           THEN calculateStringSimilarity(stored.s, current.s)
           ELSE IF storedInfo.browser = currentInfo.browser
           THEN <<Max2(0, 5 - Abs(storedInfo.majorVersion - currentInfo.majorVersion)), 5>>
           ELSE <<0, 1>>

\* crypto.js calculateUserAgentSimilarity; ua.match throws on a number and the
\* catch returns 0
calculateUserAgentSimilarity(stored, current) ==
  IF ~Truthy(stored) \/ ~Truthy(current) THEN <<0, 1>>
  ELSE IF stored = current THEN <<1, 1>>
  ELSE IF stored.t # "string" \/ current.t # "string" THEN <<0, 1>>
  ELSE LET storedInfo == extractBrowserInfo(stored.s)
           currentInfo == extractBrowserInfo(current.s)
       IN  IF storedInfo.browser = 0 \/ currentInfo.browser = 0
           THEN calculateStringSimilarity(stored.s, current.s)
           ELSE IF storedInfo.browser = currentInfo.browser
           THEN <<Max2(0, 10 - Abs(storedInfo.majorVersion - currentInfo.majorVersion)), 10>>
           ELSE <<0, 1>>

\* the weights of crypto.js:233-242, in hundredths
Weights == [ua |-> 30, lang |-> 10, tz |-> 10, scr |-> 20, hwc |-> 10, mem |-> 10,
            platform |-> 5, webgl |-> 5]

RECURSIVE SumOver(_, _)
SumOver(f, keys) ==
  IF keys = {} THEN 0
  ELSE LET k == CHOOSE x \in keys : TRUE IN f[k] + SumOver(f, keys \ {k})

\* a comparison that does not look whether its arguments are there
SimilarityOfWhateverIsGiven(stored, current) ==
  LET equal == {k \in DOMAIN Weights : stored.data[k] = current.data[k]}
      uaSim == IF "ua" \in equal THEN <<0, 1>>
               ELSE calculateUserAgentSimilarity(stored.data.ua, current.data.ua)
      total == SumOver(Weights, DOMAIN Weights)
  IN  <<SumOver(Weights, equal) * uaSim[2] + Weights.ua * uaSim[1], total * uaSim[2]>>

\* A fingerprint argument (a header, a stored value):
\*   present   FALSE when null, undefined or ''
\*   parses    FALSE when it is a string that JSON.parse rejects
\*   data      the parsed object, every key of FingerprintKeys mapped to its value
\* crypto.js compareFingerprintSimilarity: matches / total
compareFingerprintSimilarity(stored, current) ==
  IF ~stored.present \/ ~current.present THEN <<0, 1>>
  ELSE IF ~stored.parses \/ ~current.parses THEN <<0, 1>>
  ELSE LET equal == {k \in DOMAIN Weights : stored.data[k] = current.data[k]}
           uaSim == IF "ua" \in equal THEN <<0, 1>>
                    ELSE calculateUserAgentSimilarity(stored.data.ua, current.data.ua)
           total == SumOver(Weights, DOMAIN Weights)
       IN  <<SumOver(Weights, equal) * uaSim[2] + Weights.ua * uaSim[1], total * uaSim[2]>>

\* a rational score is below a tolerance given in hundredths
ScoreBelow(score, tolerance) == score[1] * 100 < tolerance * score[2]

\* a stored hash is a string of hex digits, <<>> when the column is NULL
\* security.js (unnamed/part_000) compareFingerprints: the tolerance is not used
compareFingerprints(storedHash, currentFingerprintJson, tolerance) ==
  IF storedHash = <<>> \/ ~currentFingerprintJson.present THEN FALSE
  ELSE IF ~currentFingerprintJson.parses THEN FALSE
  ELSE storedHash = generateFingerprintHash(currentFingerprintJson.data)

(***************************************************************************)
(* The database rows the model starts with (device_keys JOIN users).  Row  *)
(* k was inserted by /register or /login for user k with public key k;     *)
(* device 1 registered a fingerprint, device 2 did not.                    *)
(***************************************************************************)
DeviceKeyIds == {1, 2}

RegisteredFingerprint ==
  [ua |-> Str(<<"C","h","r","o","m","e","/","1","2","0">>), lang |-> Str(<<"e","n">>), tz |-> Str(<<"U","T","C">>),
   scr |-> Str(<<"1","x","1">>), hwc |-> Num(8), mem |-> Num(4),
   platform |-> Str(<<"W","i","n">>), webgl |-> Str(<<"g","l">>)]

\* routes/auth.js:67,188  fingerprint ? hashFingerprint(fingerprint) : null
RegisteredHash == generateFingerprintHash(RegisteredFingerprint)

DeviceRow(k) ==
  [id |-> k, user_id |-> k, public_key_jwk |-> PublicJwk(k),
   fingerprint_hash |-> IF k = 1 THEN RegisteredHash ELSE <<>>]

(***************************************************************************)
(* Request inputs.                                                         *)
(***************************************************************************)
Requests == 1..NumRequests
Jtis == 1..NumJti

NoJkt == <<"", <<>>>>

\* an Authorization header: present (a 'Bearer ' header), and the outcome of
\* verifyAccessToken on its token: valid, and the payload's sub, cnf.jkt, device_key_id
NoAuthorization == [present |-> FALSE, valid |-> FALSE, sub |-> 0, jkt |-> NoJkt, device_key_id |-> 0]
BadToken == [present |-> TRUE, valid |-> FALSE, sub |-> 0, jkt |-> NoJkt, device_key_id |-> 0]
\* crypto.js generateAccessToken(userId, keyThumbprint, deviceKeyId)
AccessToken(userId, keyThumbprint, deviceKeyId) ==
  [present |-> TRUE, valid |-> TRUE, sub |-> userId, jkt |-> keyThumbprint,
   device_key_id |-> deviceKeyId]
\* the token /login issues for device key k (routes/auth.js:187-199)
IssuedToken(k) == AccessToken(DeviceRow(k).user_id, generateKeyThumbprint(PublicJwk(k)), k)

Authorizations ==
  {NoAuthorization, BadToken}
    \cup {IssuedToken(k) : k \in DeviceKeyIds}
    \cup {AccessToken(1, NoJkt, 1), AccessToken(1, generateKeyThumbprint(PublicJwk(1)), 0)}
    \cup {AccessToken(1, generateKeyThumbprint(PublicJwk(2)), 1)}
    \cup {AccessToken(2, generateKeyThumbprint(PublicJwk(1)), 1)}

GET == <<"G","E","T">>
DELETE == <<"D","E","L","E","T","E">>
Routes == {[method |-> GET, originalUrl |-> "/api/crud/posts?page=2"],
           [method |-> DELETE, originalUrl |-> "/api/auth/device/1"]}
NoRoute == [method |-> <<>>, originalUrl |-> ""]

\* auth.js:82-84
FullUrl(protocol, host, originalUrl) == <<protocol, "://", host, originalUrl>>
Protocol == "https"
Host == "api.example.com"

NoProof == [segments |-> 0, alg |-> "", typ |-> "", htm |-> <<>>, htu |-> <<>>,
            iat |-> 0, jti |-> 0, signer |-> 0]
\* the proof the client builds for a request: signed by private key d
Proof(d, j, method, url, iat) ==
  [segments |-> 3, alg |-> "ES256", typ |-> "dpop+jwt", htm |-> method, htu |-> url,
   iat |-> iat, jti |-> j, signer |-> d]
ProofForRoute(d, j, route, iat) ==
  Proof(d, j, route.method, FullUrl(Protocol, Host, route.originalUrl), iat)

\* the proofs of the requests of Spec: the well-formed ones of both keys, and one
\* proof for each defect
BaseProof == ProofForRoute(1, 1, CHOOSE rt \in Routes : rt.method = GET, NowSeconds(EpochMs))
RequestProofsOf(routes) ==
  {ProofForRoute(d, j, rt, NowSeconds(EpochMs)) : d \in PrivateKeys, j \in Jtis, rt \in routes}
    \cup {[BaseProof EXCEPT !.segments = 2], [BaseProof EXCEPT !.alg = "HS256"],
          [BaseProof EXCEPT !.iat = NowSeconds(EpochMs) - DPOP_WINDOW - SkewSlack],
          [BaseProof EXCEPT !.jti = 0], [BaseProof EXCEPT !.signer = 0]}
RequestProofs == RequestProofsOf(Routes)

Header(d) == [present |-> TRUE, parses |-> TRUE, data |-> d]
NoFingerprint == [present |-> FALSE, parses |-> FALSE, data |-> RegisteredFingerprint]
\* the X-Fingerprint headers of the requests: none, the registered fingerprint, one
\* that differs in the timezone only, one with another browser version, not JSON
FingerprintHeaders ==
  {NoFingerprint, Header(RegisteredFingerprint),
   Header([RegisteredFingerprint EXCEPT !.tz = Str(<<"C","E","T">>)]),
   [present |-> TRUE, parses |-> FALSE, data |-> RegisteredFingerprint]}

\* parseFloat(process.env.FINGERPRINT_TOLERANCE) || 0.7, in hundredths
FINGERPRINT_TOLERANCE == 70

(***************************************************************************)
(* antiScraping.js.  A request, as the middleware reads it:                *)
(*   userAgent       the characters of the user-agent header, <<>> when    *)
(*                   the header is absent                                  *)
(*   accept, acceptEncoding   the comma-separated items of the header,     *)
(*                   <<>> when the header is absent or empty               *)
(*   acceptLanguage  the characters of the header, <<>> when absent        *)
(*   referer, authorization   whether the header is present                *)
(*   path            req.path: prefix, then "/", then a decimal number num *)
(*                   or, when num is -1, a name ("" for the path "/")      *)
(* A pattern is the entry of requestPatterns for a client id; tracked is   *)
(* FALSE when the map has no entry.  Of a recorded request the model keeps *)
(* the timestamp and the path, the fields the middleware reads again.      *)
(***************************************************************************)
Path(prefix, num, name) == [prefix |-> prefix, num |-> num, name |-> name]
RootPath == Path("", -1, "")
\* the template literal `/${num}`
RootNumbered(num) == Path("", num, "")
\* req.path.startsWith('/api/')
IsApiPath(path) == path.prefix = "/api"

NoPattern ==
  [tracked |-> FALSE, requests |-> <<>>, paths |-> {}, userAgents |-> {}, suspicionScore |-> 0]

ToLowerChar(c) ==
  IF \E i \in 1..26 : UpperCase[i] = c
  THEN LowerCase[CHOOSE i \in 1..26 : UpperCase[i] = c]
  ELSE c

\* String.prototype.includes
Includes(s, w) ==
  \E i \in 1..(Len(s) - Len(w) + 1) : \A k \in 1..Len(w) : s[i + k - 1] = w[k]

\* the alternatives of the four /.../i expressions of detectBot
BotWords ==
  {<<"b","o","t">>, <<"c","r","a","w","l","e","r">>, <<"s","p","i","d","e","r">>, <<"s","c","r","a","p","e","r">>,
   <<"c","u","r","l">>, <<"w","g","e","t">>, <<"p","y","t","h","o","n">>, <<"j","a","v","a">>, <<"g","o","-","h","t","t","p">>,
   <<"h","e","a","d","l","e","s","s">>, <<"p","h","a","n","t","o","m">>, <<"s","e","l","e","n","i","u","m">>, <<"w","e","b","d","r","i","v","e","r">>,
   <<"p","o","s","t","m","a","n">>, <<"i","n","s","o","m","n","i","a">>, <<"h","t","t","p","i","e">>}

\* antiScraping.js:149-158
IsBotUserAgent(userAgent) ==
  LET lower == [i \in 1..Len(userAgent) |-> ToLowerChar(userAgent[i])]
  IN  \E w \in BotWords : Includes(lower, w)

\* antiScraping.js:96-97
FrequencyPoints(n) == IF n > 50 THEN 30 ELSE IF n > 20 THEN 15 ELSE 0

RECURSIVE SumSeq(_, _)
SumSeq(s, i) == IF i > Len(s) THEN 0 ELSE s[i] + SumSeq(s, i + 1)

\* a uniformity test that looks at the variance only
UniformWhateverPace(intervals) ==
  LET n == Len(intervals)
      lo == CHOOSE d \in {intervals[i] : i \in 1..n} : \A i \in 1..n : d <= intervals[i]
      hi == CHOOSE d \in {intervals[i] : i \in 1..n} : \A i \in 1..n : d >= intervals[i]
      e == [i \in 1..n |-> intervals[i] - lo]
      squares == [i \in 1..n |-> e[i] * e[i]]
  IN  /\ hi - lo < 1000
      /\ (hi - lo) * (hi - lo) < 2000 * n
      /\ n * SumSeq(squares, 1) - SumSeq(e, 1) * SumSeq(e, 1) < 1000 * n * n

\* antiScraping.js:105-110  variance < 1000 && avgInterval < 5000, in integers:
\* with e the intervals less their minimum, variance = (n*sum(e^2) - sum(e)^2) / n^2.
\* Intervals that spread over 1000 ms or more have a variance of at least
\* spread^2 / (2n) >= 1000 in every window of this model; the squares are taken of
\* smaller numbers only.
UniformIntervals(intervals) ==
  LET n == Len(intervals)
      lo == CHOOSE d \in {intervals[i] : i \in 1..n} : \A i \in 1..n : d <= intervals[i]
      hi == CHOOSE d \in {intervals[i] : i \in 1..n} : \A i \in 1..n : d >= intervals[i]
      e == [i \in 1..n |-> intervals[i] - lo]
      squares == [i \in 1..n |-> e[i] * e[i]]
  IN  /\ hi - lo < 1000
      /\ (hi - lo) * (hi - lo) < 2000 * n
      /\ n * SumSeq(squares, 1) - SumSeq(e, 1) * SumSeq(e, 1) < 1000 * n * n
      /\ SumSeq(intervals, 1) < 5000 * n

\* a score without the interval signal
NoIntervalPoints(requests) == 0

\* antiScraping.js:100-111
IntervalPoints(requests) ==
  IF Len(requests) > 5
  THEN LET intervals == [i \in 1..(Len(requests) - 1) |->
                           requests[i + 1].timestamp - requests[i].timestamp]
       IN  IF UniformIntervals(intervals) THEN 25 ELSE 0
  ELSE 0

\* a path diversity signal applied to windows of any size
DiversityPointsUnguarded(uniquePaths, totalRequests) ==
  (IF uniquePaths * 10 > 8 * totalRequests THEN 20 ELSE 0)
    + (IF uniquePaths * 10 < totalRequests THEN 15 ELSE 0)

\* antiScraping.js:114-121  uniquePaths / totalRequests > 0.8, < 0.1
DiversityPoints(uniquePaths, totalRequests) ==
  IF totalRequests > 10
  THEN (IF uniquePaths * 10 > 8 * totalRequests THEN 20 ELSE 0)
         + (IF uniquePaths * 10 < totalRequests THEN 15 ELSE 0)
  ELSE 0

\* antiScraping.js:124-134  a path ending in /<number> while `/${number +- 1}` was seen
SequentialPoints(paths) ==
  IF \E p \in paths :
       /\ p.num >= 0
       /\ RootNumbered(p.num + 1) \in paths \/ RootNumbered(p.num - 1) \in paths
  THEN 20 ELSE 0

\* antiScraping.js:137
UserAgentPoints(userAgents) == IF Cardinality(userAgents) > 3 THEN 15 ELSE 0

\* antiScraping.js:89-140
calculateSuspicionScore(pattern) ==
  IF Len(pattern.requests) = 0 THEN 0
  ELSE Min2(FrequencyPoints(Len(pattern.requests)) + IntervalPoints(pattern.requests)
              + DiversityPoints(Cardinality(pattern.paths), Len(pattern.requests))
              + SequentialPoints(pattern.paths) + UserAgentPoints(pattern.userAgents),
            100)

\* an update that never lets the score of a client fall
analyzeKeepingHighestScore(pattern, request, now) ==
  LET pushed == Append(pattern.requests, [timestamp |-> now, path |-> request.path])
      recorded == [tracked |-> TRUE,
                   requests |-> SelectSeq(pushed, LAMBDA r : now - r.timestamp < 600000),
                   paths |-> pattern.paths \cup {request.path},
                   userAgents |-> pattern.userAgents \cup {request.userAgent},
                   suspicionScore |-> 0]
  IN  [recorded EXCEPT !.suspicionScore =
         Max2(Min2(pattern.suspicionScore, 100), calculateSuspicionScore(recorded))]

\* an update that carries the penalties of earlier requests over
analyzeCarryingPenalty(pattern, request, now) ==
  LET pushed == Append(pattern.requests, [timestamp |-> now, path |-> request.path])
      recorded == [tracked |-> TRUE,
                   requests |-> SelectSeq(pushed, LAMBDA r : now - r.timestamp < 600000),
                   paths |-> pattern.paths \cup {request.path},
                   userAgents |-> pattern.userAgents \cup {request.userAgent},
                   suspicionScore |-> 0]
      carried == Max2(0, pattern.suspicionScore - calculateSuspicionScore(pattern))
  IN  [recorded EXCEPT !.suspicionScore = calculateSuspicionScore(recorded) + carried]

\* antiScraping.js:59-86
analyzeRequestPattern(pattern, request, now) ==
  LET pushed == Append(pattern.requests, [timestamp |-> now, path |-> request.path])
      recorded == [tracked |-> TRUE,
                   requests |-> SelectSeq(pushed, LAMBDA r : now - r.timestamp < 600000),
                   paths |-> pattern.paths \cup {request.path},
                   userAgents |-> pattern.userAgents \cup {request.userAgent},
                   suspicionScore |-> 0]
  IN  [recorded EXCEPT !.suspicionScore = calculateSuspicionScore(recorded)]

\* antiScraping.js:148-172, 179-182: the checks of detectBot that read the request only
StatelessBotPredicate(request) ==
  \/ IsBotUserAgent(request.userAgent)
  \/ Cardinality({h \in {"accept", "accept-language", "accept-encoding"} :
        \/ h = "accept" /\ request.accept = <<>>
        \/ h = "accept-language" /\ request.acceptLanguage = <<>>
        \/ h = "accept-encoding" /\ request.acceptEncoding = <<>>}) > 1
  \/ request.accept = <<"*/*">> \/ request.accept = <<>>
  \/ ~request.referer /\ request.path # RootPath /\ ~IsApiPath(request.path)

\* a threshold that is reached at 70
FlaggedFromSeventy(pattern) == pattern.tracked /\ pattern.suspicionScore >= 70

\* antiScraping.js:175
ScoreFlagged(pattern) == pattern.tracked /\ pattern.suspicionScore > 70

\* antiScraping.js:143-185
detectBot(request, pattern) == StatelessBotPredicate(request) \/ ScoreFlagged(pattern)

\* a frequency limit of 20 requests a minute
TooFrequentFromTwenty(pattern, now) ==
  /\ pattern.tracked
  /\ Len(SelectSeq(pattern.requests, LAMBDA r : now - r.timestamp < 60000)) > 20

\* antiScraping.js:188-197
isRequestTooFrequent(pattern, now) ==
  /\ pattern.tracked
  /\ Len(SelectSeq(pattern.requests, LAMBDA r : now - r.timestamp < 60000)) > 30

Mozilla == <<"M","o","z","i","l","l","a">>

\* antiScraping.js:200-227
validateBrowserHeaders(request) ==
  /\ (\E i \in 1..Len(request.accept) : request.accept[i] = "text/html")
       \/ IsApiPath(request.path)
  /\ \E i \in 1..Len(request.acceptEncoding) : request.acceptEncoding[i] = "gzip"
  /\ request.acceptLanguage # <<>> \/ IsApiPath(request.path)
  /\ Len(request.userAgent) >= 20 /\ Includes(request.userAgent, Mozilla)

\* a penalty of 50
PenalizedByFifty(pattern) ==
  IF pattern.tracked THEN [pattern EXCEPT !.suspicionScore = @ + 50] ELSE pattern

\* antiScraping.js:287-290
Penalized(pattern) ==
  IF pattern.tracked THEN [pattern EXCEPT !.suspicionScore = @ + 20] ELSE pattern

\* a cleanup whose maxAge is the ten minutes of the window
CleanedAfterTenMinutes(pattern, now) ==
  LET kept == SelectSeq(pattern.requests, LAMBDA r : now - r.timestamp < 600000)
  IN  IF ~pattern.tracked \/ Len(kept) = 0 THEN NoPattern
      ELSE [pattern EXCEPT !.requests = kept]

\* antiScraping.js:331-342: cleanup, for the entry of one client
CleanedPattern(pattern, now) ==
  LET kept == SelectSeq(pattern.requests, LAMBDA r : now - r.timestamp < 3600000)
  IN  IF ~pattern.tracked \/ Len(kept) = 0 THEN NoPattern
      ELSE [pattern EXCEPT !.requests = kept]

\* the user agents of the model's clients: a browser and an HTTP library
BrowserUserAgent == <<"M","o","z","i","l","l","a","/","5",".","0"," ","(","X","1","1",")"," ","C","h","r","o","m","e","/","1","2","0">>
LibraryUserAgent == <<"p","y","t","h","o","n","-","r","e","q","u","e","s","t","s","/","2",".","3","1">>

NoRequest ==
  [userAgent |-> <<>>, accept |-> <<>>, acceptLanguage |-> <<>>, acceptEncoding |-> <<>>,
   referer |-> FALSE, authorization |-> FALSE, path |-> RootPath]
NoOutcome == [status |-> 0, code |-> "", detected |-> FALSE]
NoProfile == [userAgent |-> <<>>, acceptLanguage |-> <<>>, acceptEncoding |-> <<>>,
              authorization |-> FALSE, pace |-> <<0, 0>>, route |-> ""]
NoClient == [profile |-> NoProfile, sent |-> 0, left |-> 0, now |-> 0, breaks |-> 0,
             request |-> NoRequest, outcome |-> NoOutcome, scoreBefore |-> 0]

(***************************************************************************)
(* State.                                                                  *)
(*   jtiCache   auth.js:6    the module-level Set of recorded jti values   *)
(*   isActive   device_keys.is_active of each row                          *)
(*   nodeEnv    process.env.NODE_ENV, fixed for the life of the process    *)
(*   pc, req, res   per request in flight: the await its handler is        *)
(*              suspended at, the inputs and locals the handler holds,     *)
(*              and the response once one is sent                          *)
(*   passes     history: per jti, how many requests passed the replay      *)
(*              check since the cache was last cleared (counted up to 2)   *)
(*   call, result   SpecDPoP, SpecThumbprint: the arguments of a call of    *)
(*              the function and what it returned                          *)
(*   requestPatterns   SpecScraping: antiScraping.js:8, the entry of the   *)
(*              Map for the client id of the model's client                *)
(*   client     SpecScraping: the client: the headers its id is made of,   *)
(*              its pace and route, the requests sent, the clock, its last *)
(*              request and the response to it, and (history) the score    *)
(*              stored for it when that request arrived                    *)
(***************************************************************************)
VARIABLES jtiCache, isActive, nodeEnv, pc, req, res, passes, call, result,
          requestPatterns, client

vars == <<jtiCache, isActive, nodeEnv, pc, req, res, passes, call, result,
          requestPatterns, client>>

\* the state of the anti-scraping middleware and of the client it serves
scrapingVars == <<requestPatterns, client>>

\* what a handler holds before it has read anything
IdleRequest ==
  [authorization |-> NoAuthorization, dpop |-> NoProof, route |-> NoRoute,
   fingerprint |-> NoFingerprint, deviceKey |-> 0, foundActive |-> FALSE,
   dpopResult |-> Invalid(""), jtiWasCached |-> FALSE, fingerprintChecked |-> FALSE,
   fingerprintMismatch |-> FALSE, user |-> 0]

\* recordedJti: the jti this request added to jtiCache, 0 when it added none
\* requireReauth: the body carries requireReauth: true (auth.js:125)
NoResponse == [status |-> 0, error |-> "", recordedJti |-> 0, requireReauth |-> FALSE]
Response(status, error, recordedJti) ==
  [status |-> status, error |-> error, recordedJti |-> recordedJti, requireReauth |-> FALSE]

NotCalled == [valid |-> FALSE, error |-> "not called", jti |-> 0, iat |-> 0]
NoCall == [dpopHeader |-> NoProof, method |-> <<>>, url |-> <<>>, key |-> 1, nowMs |-> 0]

Init ==
  /\ jtiCache = {}
  /\ isActive = [k \in DeviceKeyIds |-> TRUE]
  /\ nodeEnv \in {"production", "development"}
  /\ pc = [r \in Requests |-> "idle"]
  /\ req = [r \in Requests |-> IdleRequest]
  /\ res = [r \in Requests |-> NoResponse]
  /\ passes = [j \in 0..NumJti |-> 0]
  /\ call = NoCall
  /\ result = NotCalled
  /\ requestPatterns = NoPattern
  /\ client = NoClient

\* a response without the return: the handler stays where it is
RespondAndGoOn(r, status, error, recordedJti) ==
  /\ pc' = pc
  /\ res' = [res EXCEPT ![r] = Response(status, error, recordedJti)]
  /\ req' = req

\* res.status(s).json({error}) and return: the handler is over, its locals are gone
Reject(r, status, error, recordedJti) ==
  /\ pc' = [pc EXCEPT ![r] = "rejected"]
  /\ res' = [res EXCEPT ![r] = Response(status, error, recordedJti)]
  /\ req' = [req EXCEPT ![r] = IdleRequest]

\* auth.js:122-126: 401 'Device verification failed' with requireReauth: true
RejectForReauth(r, recordedJti) ==
  /\ pc' = [pc EXCEPT ![r] = "rejected"]
  /\ res' = [res EXCEPT ![r] = [Response(401, "Device verification failed", recordedJti)
                                  EXCEPT !.requireReauth = TRUE]]
  /\ req' = [req EXCEPT ![r] = IdleRequest]

\* the handler is suspended at its next await
Suspend(r, at, locals) ==
  /\ pc' = [pc EXCEPT ![r] = at]
  /\ req' = [req EXCEPT ![r] = locals]
  /\ res' = res

(***************************************************************************)
(* authenticateToken, auth.js:16-182.  The headers of a request are drawn  *)
(* in the segment that first reads them.  A segment that ends in a         *)
(* rejection logs (logRequest swallows its own errors, part_000:67-69) and *)
(* responds without reading or writing shared state: its awaits are folded *)
(* into the segment.                                                       *)
(***************************************************************************)
\* auth.js:46
TokenBound(payload) == payload.jkt # NoJkt /\ payload.device_key_id # 0

\* auth.js:18-57: up to the await of the device key query
AuthStart(r) ==
  /\ pc[r] = "idle"
  /\ \E authorization \in Authorizations, dpopPresent \in BOOLEAN :
       IF ~authorization.present
       THEN Reject(r, 401, "Missing or invalid authorization header", 0)
       ELSE IF ~dpopPresent THEN Reject(r, 401, "Missing DPoP header", 0)
       ELSE IF ~authorization.valid THEN Reject(r, 401, "Invalid or expired token", 0)
       ELSE IF ~TokenBound(authorization)
       THEN Reject(r, 401, "Token not properly bound to device", 0)
       ELSE Suspend(r, "lookup", [IdleRequest EXCEPT !.authorization = authorization])
  /\ UNCHANGED <<jtiCache, isActive, nodeEnv, passes, call, result, scrapingVars>>

\* a query that does not look at is_active
FoundWhetherActiveOrNot(active, deviceKeyId, userId) ==
  /\ deviceKeyId \in DeviceKeyIds
  /\ DeviceRow(deviceKeyId).user_id = userId

\* auth.js:52-57: WHERE dk.id = ? AND dk.user_id = ? AND dk.is_active = 1 AND u.is_active = 1
DeviceKeyFound(active, deviceKeyId, userId) ==
  /\ deviceKeyId \in DeviceKeyIds
  /\ DeviceRow(deviceKeyId).user_id = userId
  /\ active[deviceKeyId]

\* a handler that does not compare the thumbprints
AnyThumbprint(publicKeyJwk, keyThumbprint) == TRUE

\* auth.js:75-76
ThumbprintMatches(publicKeyJwk, keyThumbprint) ==
  generateKeyThumbprint(publicKeyJwk) = keyThumbprint

\* a handler that goes on whatever verifyDPoP returned
AnyResultAccepted(dpopResult) == TRUE

\* auth.js:90
ProofAccepted(dpopResult) == dpopResult.valid

\* a verifyDPoP that records the jti of the proof it was given
RecordedByVerifyDPoP(cache, dpopResult) == cache \cup {dpopResult.jti}

\* verifyDPoP holds no reference to jtiCache: the cache after the call of
\* auth.js:89 is the cache before it
CacheAfterVerifyDPoP(cache, dpopResult) == cache

\* auth.js:52-93: the query reads the row; the handler checks the thumbprint, builds
\* the URL and calls verifyDPoP, whose claim checks run before its first await
LookupOf(r, routes) ==
  /\ pc[r] = "lookup"
  /\ LET payload == req[r].authorization
         deviceKeyId == payload.device_key_id
     IN  IF ~DeviceKeyFound(isActive, deviceKeyId, payload.sub)
         THEN /\ Reject(r, 401, "Device key not found or inactive", 0)
              /\ jtiCache' = jtiCache
         ELSE LET publicKeyJwk == DeviceRow(deviceKeyId).public_key_jwk
              IN  IF ~ThumbprintMatches(publicKeyJwk, payload.jkt)
                  THEN /\ Reject(r, 401, "Key thumbprint mismatch", 0)
                       /\ jtiCache' = jtiCache
                  ELSE \E dpopHeader \in RequestProofsOf(routes), route \in routes :
                         LET fullUrl == FullUrl(Protocol, Host, route.originalUrl)
                             dpopResult == verifyDPoP(dpopHeader, route.method, fullUrl,
                                                      publicKeyJwk, EpochMs)
                         IN  /\ jtiCache' = CacheAfterVerifyDPoP(jtiCache, dpopResult)
                             /\ IF ~ProofAccepted(dpopResult)
                                THEN Reject(r, 401, "Invalid DPoP proof", 0)
                                ELSE Suspend(r, "verify",
                                       [req[r] EXCEPT !.dpop = dpopHeader, !.route = route,
                                                      !.deviceKey = deviceKeyId,
                                                      !.foundActive = isActive[deviceKeyId],
                                                      !.dpopResult = dpopResult])
  /\ UNCHANGED <<isActive, nodeEnv, passes, call, result, scrapingVars>>

\* the requests of Spec are for the routes of Routes
Lookup(r) == LookupOf(r, Routes)

\* auth.js:52, 177-180: database.get throws
LookupFails(r) ==
  /\ pc[r] = "lookup"
  /\ Reject(r, 500, "Authentication failed", 0)
  /\ UNCHANGED <<jtiCache, isActive, nodeEnv, passes, call, result, scrapingVars>>

\* a replay check that finds nothing
NeverReplayed(cache, jti) == FALSE

\* auth.js:96  jtiCache.has(dpopResult.jti)
ReplayDetected(cache, jti) == jti \in cache

\* a handler that forgets to record the identifier
RecordNothing(cache, jti) == cache

\* auth.js:102  jtiCache.add(dpopResult.jti)
RecordJti(cache, jti) == cache \cup {jti}

\* a handler for which a missing header is a mismatch
MismatchWhenHeaderMissing(fingerprintHash, currentFingerprint) ==
  /\ fingerprintHash # <<>>
  /\ \/ ~currentFingerprint.present
     \/ ~compareFingerprints(fingerprintHash, currentFingerprint, FINGERPRINT_TOLERANCE)

\* auth.js:109-116: TRUE when the request is treated as a fingerprint mismatch
FingerprintMismatch(fingerprintHash, currentFingerprint) ==
  /\ fingerprintHash # <<>>
  /\ currentFingerprint.present
  /\ ~compareFingerprints(fingerprintHash, currentFingerprint, FINGERPRINT_TOLERANCE)

Count(n) == Min2(2, n + 1)

\* a handler that rejects a mismatch in every environment
RejectsEverywhere(env) == TRUE

\* auth.js:120  process.env.NODE_ENV === 'production'
RejectsOnMismatch(env) == env = "production"

\* auth.js:95-163: from the result of verifyDPoP to the await of the last_used update.
\* has() and add() run in one segment, no await between them.  The ip check of
\* auth.js:138 never runs: device_keys has no last_ip column (auth.js:320-333).
VerifyDone(r) ==
  /\ pc[r] = "verify"
  /\ LET jti == req[r].dpopResult.jti
     IN  IF ReplayDetected(jtiCache, jti)
         THEN /\ Reject(r, 401, "DPoP proof replay detected", 0)
              /\ UNCHANGED <<jtiCache, passes>>
         ELSE /\ jtiCache' = RecordJti(jtiCache, jti)
              /\ passes' = [passes EXCEPT ![jti] = Count(@)]
              /\ \E currentFingerprint \in FingerprintHeaders :
                   LET row == DeviceRow(req[r].deviceKey)
                       checked == row.fingerprint_hash # <<>> /\ currentFingerprint.present
                       mismatch == FingerprintMismatch(row.fingerprint_hash, currentFingerprint)
                   IN  IF mismatch /\ RejectsOnMismatch(nodeEnv)
                       THEN RejectForReauth(r, jti)
                       ELSE Suspend(r, "touch",
                              [req[r] EXCEPT !.fingerprint = currentFingerprint,
                                             !.jtiWasCached = jti \in jtiCache,
                                             !.fingerprintChecked = checked,
                                             !.fingerprintMismatch = mismatch])
  /\ UNCHANGED <<isActive, nodeEnv, call, result, scrapingVars>>

\* auth.js:159-176: the update returned; req.user is set, the request is logged
\* and next() is called
TouchDone(r) ==
  /\ pc[r] = "touch"
  /\ Suspend(r, "accepted", [req[r] EXCEPT !.user = req[r].authorization.sub])
  /\ UNCHANGED <<jtiCache, isActive, nodeEnv, passes, call, result, scrapingVars>>

\* auth.js:159, 177-180: database.run throws
TouchFails(r) ==
  /\ pc[r] = "touch"
  /\ Reject(r, 500, "Authentication failed", req[r].dpopResult.jti)
  /\ UNCHANGED <<jtiCache, isActive, nodeEnv, passes, call, result, scrapingVars>>

\* routes/auth.js:358-366: DELETE /device/:keyId behind authenticateToken:
\* UPDATE device_keys SET is_active = 0 WHERE key_id = ? AND user_id = ?
RevokedBy(active, route, userId) ==
  IF route.method = DELETE /\ DeviceRow(1).user_id = userId
  THEN [active EXCEPT ![1] = FALSE]
  ELSE active

\* the route handler behind next(): the revocation, or a resource route that leaves
\* the state of this model alone; then the response is sent
RouteHandler(r) ==
  /\ pc[r] = "accepted"
  /\ isActive' = RevokedBy(isActive, req[r].route, req[r].user)
  /\ pc' = [pc EXCEPT ![r] = "idle"]
  /\ req' = [req EXCEPT ![r] = IdleRequest]
  /\ res' = [res EXCEPT ![r] = NoResponse]
  /\ UNCHANGED <<jtiCache, nodeEnv, passes, call, result, scrapingVars>>

\* the error response of a rejected request has gone out
Respond(r) ==
  /\ pc[r] = "rejected"
  /\ pc' = [pc EXCEPT ![r] = "idle"]
  /\ res' = [res EXCEPT ![r] = NoResponse]
  /\ UNCHANGED <<jtiCache, isActive, nodeEnv, req, passes, call, result, scrapingVars>>

\* a cleaning pass that clears the cache whatever its size
ClearedAlways(cache) == {}
\* a cleaning pass that evicts one identifier of a cache over its size
EvictOne(cache) ==
  IF Cardinality(cache) > JTI_CACHE_SIZE
  THEN cache \ {CHOOSE j \in cache : TRUE}
  ELSE cache

\* auth.js:10-14: the body of the setInterval callback
CleanedCache(cache) == IF Cardinality(cache) > JTI_CACHE_SIZE THEN {} ELSE cache

CleanJtiCache ==
  /\ jtiCache' = CleanedCache(jtiCache)
  /\ passes' = IF jtiCache' = {} THEN [j \in 0..NumJti |-> 0] ELSE passes
  /\ UNCHANGED <<isActive, nodeEnv, pc, req, res, call, result, scrapingVars>>

Next ==
  \/ \E r \in Requests :
       \/ AuthStart(r)
       \/ Lookup(r)
       \/ LookupFails(r)
       \/ VerifyDone(r)
       \/ TouchDone(r)
       \/ TouchFails(r)
       \/ RouteHandler(r)
       \/ Respond(r)
  \/ CleanJtiCache

Spec == Init /\ [][Next]_vars

(***************************************************************************)
(* verifyDPoP on its own: a call with arguments drawn from the proofs,     *)
(* methods, URLs, keys and clock readings below, and its result.           *)
(***************************************************************************)
LowerGet == <<"g","e","t">>
MethodValues == {GET, LowerGet, DELETE}
UrlValues == {FullUrl(Protocol, Host, rt.originalUrl) : rt \in Routes}
\* iat values on both sides of both boundaries, the current second, and a falsy iat
IatValues(now) ==
  {0, now} \cup {now - DPOP_WINDOW + k : k \in (-SkewSlack)..SkewSlack}
           \cup {now + DPOP_WINDOW + k : k \in (-SkewSlack)..SkewSlack}
\* header.payload.signature shapes: well-formed, two segments, wrong alg, wrong typ
ProofShapes ==
  {[segments |-> 3, alg |-> "ES256", typ |-> "dpop+jwt"],
   [segments |-> 2, alg |-> "ES256", typ |-> "dpop+jwt"],
   [segments |-> 3, alg |-> "HS256", typ |-> "dpop+jwt"],
   [segments |-> 3, alg |-> "ES256", typ |-> "JWT"]}
ClockValues == {EpochMs, EpochMs + 999}

CallProofs(now) ==
  {[segments |-> sh.segments, alg |-> sh.alg, typ |-> sh.typ, htm |-> m, htu |-> u,
    iat |-> t, jti |-> j, signer |-> d] :
     sh \in ProofShapes, m \in MethodValues, u \in UrlValues, t \in IatValues(now),
     j \in 0..1, d \in PrivateKeys}

InitDPoP ==
  /\ jtiCache = {}
  /\ isActive = [k \in DeviceKeyIds |-> TRUE]
  /\ nodeEnv = "development"
  /\ pc = [r \in Requests |-> "idle"]
  /\ req = [r \in Requests |-> IdleRequest]
  /\ res = [r \in Requests |-> NoResponse]
  /\ passes = [j \in 0..NumJti |-> 0]
  /\ \E nowMs \in ClockValues :
       call \in [dpopHeader : CallProofs(NowSeconds(nowMs)) \cup {NoProof},
                 method : MethodValues, url : UrlValues, key : PrivateKeys,
                 nowMs : {nowMs}]
  /\ result = NotCalled
  /\ requestPatterns = NoPattern
  /\ client = NoClient

\* const dpopResult = await verifyDPoP(dpopHeader, method, url, publicKeyJwk)
CallVerifyDPoP ==
  /\ result = NotCalled
  /\ result' = verifyDPoP(call.dpopHeader, call.method, call.url, PublicJwk(call.key),
                          call.nowMs)
  /\ UNCHANGED <<jtiCache, isActive, nodeEnv, pc, req, res, passes, call, scrapingVars>>

NextDPoP == CallVerifyDPoP

SpecDPoP == InitDPoP /\ [][NextDPoP]_vars

Called == result # NotCalled

\* the defects of the proof of the call, in the order of the checks of verifyDPoP
ProofDefects ==
  LET proof == call.dpopHeader
      age == NowSeconds(call.nowMs) - proof.iat
  IN  << proof.segments < 3,
         proof.alg # "ES256" \/ proof.typ # "dpop+jwt",
         proof.htm # ToUpperCase(call.method),
         proof.htu # call.url,
         proof.iat = 0 \/ age > DPOP_WINDOW \/ age < -DPOP_WINDOW,
         proof.jti = 0,
         proof.signer # call.key >>

\* the messages of the checks, in the same order
DefectErrors ==
  << {"Missing DPoP header", "Invalid DPoP format"}, {"Invalid DPoP header"},
     {"DPoP method mismatch"}, {"DPoP URL mismatch"}, {"DPoP timestamp invalid"},
     {"Missing DPoP JTI"}, {"signature verification failed"} >>

(***************************************************************************)
(* C30: verifyDPoP reports the first failing check in the order format,    *)
(* header alg/typ, method, URL, timestamp, jti presence, signature; it     *)
(* reports a bad signature only for a proof whose claims all passed, and   *)
(* every failure is returned as valid:false with an error message.         *)
(***************************************************************************)
C30_FirstFailingCheckReported ==
  Called =>
    /\ \A i \in 1..7 :
         ProofDefects[i] /\ (\A j \in 1..(i - 1) : ~ProofDefects[j]) =>
           ~result.valid /\ result.error \in DefectErrors[i]
    /\ (\A i \in 1..7 : ~ProofDefects[i]) => result.valid /\ result.error = ""
    /\ ~result.valid => result.error # ""

\* a proof with the wrong method, a stale timestamp, no jti and the signature of
\* another key: the method is what verifyDPoP reports
C30_MethodReportedOfFourDefects ==
  /\ Called
  /\ ProofDefects = <<FALSE, FALSE, TRUE, FALSE, TRUE, TRUE, TRUE>>
  /\ result = Invalid("DPoP method mismatch")
(***************************************************************************)
(* C3 as stated: verifyDPoP returns valid for a proof signed by key K over  *)
(* (method M, url U) only when it is called with exactly M, exactly U and   *)
(* K's public key.                                                         *)
(***************************************************************************)
C3_ExactMethodUrlKey ==
  Called /\ result.valid =>
    /\ call.method = call.dpopHeader.htm
    /\ call.url = call.dpopHeader.htu
    /\ call.key = call.dpopHeader.signer

(***************************************************************************)
(* C3: verifyDPoP returns valid for a proof signed by key K over (M, U)    *)
(* only when the upper-cased method of the call is M, the url of the call  *)
(* is exactly U (query string included) and the key of the call is K's     *)
(* public key; a call whose method differs from M by more than letter      *)
(* case, whose url differs or whose key differs returns valid:false.       *)
(***************************************************************************)
C3_UpperCasedMethodUrlKey ==
  Called /\ result.valid =>
    /\ ToUpperCase(call.method) = call.dpopHeader.htm
    /\ call.url = call.dpopHeader.htu
    /\ call.key = call.dpopHeader.signer

\* a valid result for a call whose method is the proof's method in lower case
C3_ValidForLowerCaseMethod ==
  /\ Called /\ result.valid
  /\ call.method = LowerGet /\ call.dpopHeader.htm = GET

(***************************************************************************)
(* C4: verifyDPoP rejects every proof whose iat is more than 300 s from    *)
(* the current time in whole seconds, in either direction, and the         *)
(* timestamp check passes every proof whose iat is 300 s or less from it.  *)
(***************************************************************************)
C4_TimestampWindow ==
  Called =>
    LET skew == Abs(NowSeconds(call.nowMs) - call.dpopHeader.iat)
    IN  /\ skew > 300 => ~result.valid
        /\ skew <= 300 => result.error # "DPoP timestamp invalid"

\* proofs exactly on each boundary verified, one second beyond it rejected
C4_BoundaryAccepted ==
  /\ Called /\ result.valid
  /\ Abs(NowSeconds(call.nowMs) - call.dpopHeader.iat) = 300
  /\ call.nowMs % 1000 # 0

(***************************************************************************)
(* C5 as stated: the method check of verifyDPoP is case-insensitive: a     *)
(* proof whose method claim equals the method of the call up to letter     *)
(* case is not rejected by the method check.                               *)
(***************************************************************************)
C5_MethodCheckCaseInsensitive ==
  Called /\ ToUpperCase(call.dpopHeader.htm) = ToUpperCase(call.method)
    => result.error # "DPoP method mismatch"

(***************************************************************************)
(* Properties of authenticateToken (Spec).                                 *)
(***************************************************************************)
\* request r is past the replay check: its jti has been recorded
Passed(r) == pc[r] \in {"touch", "accepted"}

\* this step takes request r through the replay check
PassesReplayCheck(r) ==
  /\ pc[r] = "verify"
  /\ \/ pc'[r] = "touch"
     \/ pc'[r] = "rejected" /\ res'[r].recordedJti # 0

\* this step ends request r at the replay check
LeavesReplayCheck(r) == pc[r] = "verify" /\ pc'[r] # "verify"

(***************************************************************************)
(* C1: for every jti, at most one request carrying it passes the replay    *)
(* check between two clears of the cache, whatever the interleaving of     *)
(* the handlers; a request that reaches the replay check while its jti is  *)
(* in the cache is rejected with 401 'DPoP proof replay detected'.         *)
(***************************************************************************)
C1_AtMostOnePassPerJti ==
  /\ [](\A j \in Jtis : passes[j] <= 1)
  /\ [][\A r \in Requests :
          LeavesReplayCheck(r) /\ req[r].dpopResult.jti \in jtiCache =>
            /\ pc'[r] = "rejected"
            /\ res'[r] = Response(401, "DPoP proof replay detected", 0)]_vars

\* two handlers ran concurrently with the same jti: one is past the replay check
\* and still in flight, the other was rejected as a replay
C1_ConcurrentReplayRejected ==
  \E r1, r2 \in Requests :
    /\ r1 # r2
    /\ pc[r1] = "touch" /\ passes[req[r1].dpopResult.jti] = 1
    /\ req[r1].dpopResult.jti \in jtiCache
    /\ pc[r2] = "rejected" /\ res[r2].error = "DPoP proof replay detected"

(***************************************************************************)
(* C2: a request for which next() was called had a verified bearer token   *)
(* carrying a thumbprint and a device key id, an active device key of that *)
(* id and user, a stored public key whose thumbprint is the token's, a     *)
(* proof that verifies against that key for the request's method and full  *)
(* URL, and a jti that was not in the cache; so its proof was signed by    *)
(* the private key of the bound device key.                                *)
(***************************************************************************)
C2_AcceptedOnlyWithBoundProof ==
  \A r \in Requests :
    pc[r] = "accepted" =>
      LET token == req[r].authorization
          row == DeviceRow(req[r].deviceKey)
      IN  /\ token.present /\ token.valid
          /\ token.jkt # NoJkt /\ token.device_key_id # 0
          /\ req[r].deviceKey = token.device_key_id
          /\ req[r].deviceKey \in DeviceKeyIds
          /\ row.user_id = token.sub
          /\ req[r].foundActive
          /\ generateKeyThumbprint(row.public_key_jwk) = token.jkt
          /\ verifyDPoP(req[r].dpop, req[r].route.method,
                        FullUrl(Protocol, Host, req[r].route.originalUrl),
                        row.public_key_jwk, EpochMs).valid
          /\ ~req[r].jtiWasCached
          /\ req[r].dpop.signer = req[r].deviceKey
          /\ req[r].user = token.sub

\* one request was accepted while another one, whose proof did not verify, was not
C2_AcceptedAndRefused ==
  \E r1, r2 \in Requests :
    /\ pc[r1] = "accepted" /\ req[r1].user = 1
    /\ pc[r2] = "rejected" /\ res[r2].error = "Invalid DPoP proof"

(***************************************************************************)
(* C6: every step of a request up to and including the call of verifyDPoP  *)
(* (the rejections for a missing header, an invalid or unbound token, a    *)
(* missing or inactive device key, a thumbprint mismatch or an invalid     *)
(* proof, and the step that hands a verified proof to the replay check)    *)
(* leaves the jti cache as it was.                                         *)
(***************************************************************************)
C6_CacheUntouchedBeforeReplayCheck ==
  [][\A r \in Requests :
       pc[r] \in {"idle", "lookup"} /\ pc'[r] # pc[r] => jtiCache' = jtiCache]_vars

\* a request was rejected for its proof while the cache held a jti
C6_RejectedWithCacheInUse ==
  \E r \in Requests :
    /\ pc[r] = "rejected" /\ res[r].error = "Invalid DPoP proof"
    /\ jtiCache # {}

(***************************************************************************)
(* C7 as stated: in every reachable state the replay cache holds at most   *)
(* JTI_CACHE_SIZE identifiers.                                             *)
(***************************************************************************)
C7_HardCapacityBound == Cardinality(jtiCache) <= JTI_CACHE_SIZE

(***************************************************************************)
(* C7: the capacity bound is soft.  The cache grows by one identifier per  *)
(* passed replay check and is emptied only by the periodic cleaning pass,  *)
(* which clears the whole cache, and only when it finds more than          *)
(* JTI_CACHE_SIZE identifiers in it.                                       *)
(***************************************************************************)
C7_ClearedOnlyWhenOverCapacity ==
  [][/\ Cardinality(jtiCache') <= Cardinality(jtiCache) + 1
     /\ ~(jtiCache \subseteq jtiCache') =>
          Cardinality(jtiCache) > JTI_CACHE_SIZE /\ jtiCache' = {}]_vars

\* the cache went over its capacity and was cleared: a request past the replay
\* check whose jti is not in the cache any more
C7_ClearedAfterOverflow ==
  \E r \in Requests : Passed(r) /\ req[r].dpopResult.jti \notin jtiCache

(***************************************************************************)
(* C8: a recorded jti leaves the cache only when the whole cache is        *)
(* cleared, and a request passes the replay check only if no request with  *)
(* the same jti passed it since the last clear.                            *)
(***************************************************************************)
C8_SecondPassOnlyAfterClear ==
  [][/\ \A j \in jtiCache : j \notin jtiCache' => jtiCache' = {}
     /\ \A r \in Requests :
          PassesReplayCheck(r) =>
            /\ passes[req[r].dpopResult.jti] = 0
            /\ req[r].dpopResult.jti \notin jtiCache]_vars

\* the same jti passed twice, a clear in between: two requests past the replay
\* check with one jti
C8_PassedTwiceAcrossClear ==
  \E r1, r2 \in Requests :
    /\ r1 # r2 /\ Passed(r1) /\ Passed(r2)
    /\ req[r1].dpopResult.jti = req[r2].dpopResult.jti

(***************************************************************************)
(* C9 as stated: a request that ends in a rejection does not leave its jti *)
(* in the cache, so that every jti in the cache belongs to a request for   *)
(* which next() was called.                                                *)
(***************************************************************************)
C9_RejectedJtiNotCached ==
  \A r \in Requests :
    pc[r] = "rejected" /\ res[r].recordedJti # 0 => res[r].recordedJti \notin jtiCache

(***************************************************************************)
(* C9: every jti that enters the cache is the jti of a request whose proof *)
(* verifyDPoP found valid and that passed the replay check in that step,   *)
(* whether the request is accepted afterwards or not: the production       *)
(* fingerprint 401 of the same step and a later 500 leave it in the cache. *)
(***************************************************************************)
C9_CachedJtiPassedReplayCheck ==
  [][/\ \A j \in jtiCache' \ jtiCache :
          \E r \in Requests :
            /\ PassesReplayCheck(r)
            /\ req[r].dpopResult.valid /\ req[r].dpopResult.jti = j
            /\ req[r].dpop.jti = j
     /\ \A r \in Requests :
          /\ PassesReplayCheck(r) => req[r].dpopResult.jti \in jtiCache'
          /\ pc[r] = "touch" /\ pc'[r] = "rejected" => jtiCache' = jtiCache]_vars

\* a request was rejected after the replay check and its jti is in the cache
C9_RejectedJtiStaysCached ==
  \E r \in Requests :
    /\ pc[r] = "rejected" /\ res[r].recordedJti # 0
    /\ res[r].recordedJti \in jtiCache

(***************************************************************************)
(* C10 as stated: when the device key has a stored fingerprint and the     *)
(* request supplies a current one, the request is treated as a fingerprint *)
(* mismatch exactly when the weighted similarity of the two fingerprints   *)
(* is below the threshold.                                                 *)
(***************************************************************************)
C10_MismatchIffBelowThreshold ==
  \A r \in Requests :
    Passed(r) /\ req[r].fingerprintChecked /\ req[r].fingerprint.parses =>
      ( req[r].fingerprintMismatch
          <=> ScoreBelow(compareFingerprintSimilarity(Header(RegisteredFingerprint),
                                                      req[r].fingerprint),
                         FINGERPRINT_TOLERANCE) )

\* auth.js:109-116 for a request past the replay check: what the handler computed
MismatchOf(r) ==
  FingerprintMismatch(DeviceRow(req[r].deviceKey).fingerprint_hash, req[r].fingerprint)

(***************************************************************************)
(* C11: a fingerprint mismatch rejects the request, with 401 and           *)
(* requireReauth, only when NODE_ENV is 'production'; in any other         *)
(* environment the request goes on with req.fingerprintMismatch = true,    *)
(* and a request goes on with that flag exactly when it has a mismatch.    *)
(***************************************************************************)
C11_MismatchPolicyGated ==
  \A r \in Requests :
    /\ Passed(r) =>
         /\ req[r].fingerprintMismatch <=> MismatchOf(r)
         /\ req[r].fingerprintMismatch => nodeEnv # "production"
    /\ pc[r] = "rejected" /\ res[r].error = "Device verification failed" =>
         nodeEnv = "production" /\ res[r].status = 401 /\ res[r].requireReauth
    /\ res[r].requireReauth => res[r].error = "Device verification failed"

\* outside production a request with a mismatch was accepted with the flag set
C11_AcceptedWithMismatchFlag ==
  \E r \in Requests :
    /\ pc[r] = "accepted" /\ req[r].fingerprintMismatch
    /\ nodeEnv = "development"

Stage(at) ==
  CASE at = "idle" -> 0
    [] at = "lookup" -> 1
    [] at = "verify" -> 2
    [] at = "touch" -> 3
    [] OTHER -> 4

(***************************************************************************)
(* C29: every call of authenticateToken ends in exactly one outcome:       *)
(* either next() is called and the middleware sends no response, or one    *)
(* error response with status 401 or 500 is sent and next() is not called; *)
(* a call that reached its outcome does nothing more, and a call never     *)
(* goes back to an earlier step.                                           *)
(***************************************************************************)
C29_ExactlyOneOutcome ==
  /\ [](\A r \in Requests :
          /\ res[r] # NoResponse <=> pc[r] = "rejected"
          /\ pc[r] = "rejected" => res[r].status \in {401, 500})
  /\ [][\A r \in Requests :
          /\ pc[r] \in {"accepted", "rejected"} /\ pc'[r] # pc[r] =>
               pc'[r] = "idle" /\ res'[r] = NoResponse
          /\ pc[r] \in {"accepted", "rejected"} => res'[r] \in {res[r], NoResponse}
          /\ pc[r] \notin {"accepted", "rejected"} /\ pc'[r] # pc[r] =>
               Stage(pc'[r]) > Stage(pc[r])
          /\ pc'[r] = "accepted" /\ pc[r] # "accepted" => pc[r] = "touch"]_vars

\* one call ended in next(), the other in the 500 of the catch block
C29_AcceptedAndFailed ==
  /\ pc[1] = "accepted" /\ res[1] = NoResponse /\ req[1].user # 0
  /\ pc[2] = "rejected" /\ res[2].status = 500

(***************************************************************************)
(* C33: a call of authenticateToken reaches next() only while the device   *)
(* key of its token is active: next() is not called once a revocation of   *)
(* that key has committed.                                                 *)
(***************************************************************************)
C33_ActiveAtAcceptance ==
  [][\A r \in Requests :
       pc'[r] = "accepted" /\ pc[r] # "accepted" => isActive[req[r].deviceKey]]_vars

(***************************************************************************)
(* C34: replay detection is keyed by the jti value alone.  A call that     *)
(* passes the replay check records its jti, and from then on a call whose  *)
(* proof carries that jti is rejected as a replay, whatever device key     *)
(* signed it, also a key that never used the jti.                          *)
(***************************************************************************)
C34_ReplayKeyedByJtiAlone ==
  [][\A r \in Requests :
       pc[r] = "verify" /\ pc'[r] # "verify" =>
         LET jti == req[r].dpopResult.jti
         IN  /\ jti \in jtiCache =>
                  pc'[r] = "rejected" /\ res'[r].error = "DPoP proof replay detected"
             /\ jti \notin jtiCache => jti \in jtiCache']_vars

\* a jti went through the replay check once, with a proof of key 1, and is in the
\* cache; a validly signed proof of key 2 with the same jti is at the replay check
C34_OtherKeyAtReplayCheck ==
  \E r1, r2 \in Requests :
    /\ pc[r1] = "touch" /\ req[r1].deviceKey = 1
    /\ pc[r2] = "verify" /\ req[r2].deviceKey = 2 /\ req[r2].dpopResult.valid
    /\ req[r2].dpop.signer = 2
    /\ req[r2].dpopResult.jti = req[r1].dpopResult.jti
    /\ req[r2].dpopResult.jti \in jtiCache
    /\ passes[req[r2].dpopResult.jti] = 1

(***************************************************************************)
(* C38: the fingerprint is compared only when the request has an           *)
(* X-Fingerprint header and the device key has a stored fingerprint; a     *)
(* request without the header goes on to next() without a fingerprint      *)
(* check and without the mismatch flag, in every environment.              *)
(***************************************************************************)
C38_NoHeaderNoFingerprintCheck ==
  \A r \in Requests :
    pc[r] \in {"touch", "accepted"} =>
      /\ req[r].fingerprintChecked <=>
           req[r].fingerprint.present /\ DeviceRow(req[r].deviceKey).fingerprint_hash # <<>>
      /\ req[r].fingerprintMismatch => req[r].fingerprintChecked
      /\ ~req[r].fingerprint.present =>
           ~req[r].fingerprintChecked /\ ~req[r].fingerprintMismatch

\* in production, a request without the header for a device key that has a stored
\* fingerprint reached next()
C38_AcceptedInProductionWithoutHeader ==
  \E r \in Requests :
    /\ nodeEnv = "production" /\ pc[r] = "accepted" /\ req[r].user # 0
    /\ req[r].fingerprint = NoFingerprint
    /\ DeviceRow(req[r].deviceKey).fingerprint_hash # <<>>
    /\ ~req[r].fingerprintMismatch

(***************************************************************************)
(* generateKeyThumbprint on its own (SpecThumbprint): two calls, each with *)
(* an argument that is an object (a JWK of one of the model's key pairs in *)
(* some field order, with or without other fields, or lacking one of the   *)
(* four fields) or null.                                                   *)
(***************************************************************************)
RequiredFields == <<"crv", "kty", "x", "y">>

FieldOrders == {o \in [1..4 -> 1..4] : \A i, j \in 1..4 : o[i] = o[j] => i = j}

\* the JWK of key pair d, its fields in order o
OrderedJwk(d, o) == [i \in 1..4 |-> <<RequiredFields[o[i]], Field(PublicJwk(d), RequiredFields[o[i]])>>]

Without(jwk, f) == SelectSeq(jwk, LAMBDA p : p[1] # f)

JwkObjects ==
  LET plain == {OrderedJwk(d, o) : d \in PrivateKeys, o \in FieldOrders}
  IN  plain \cup {<< <<"kid", "k">> >> \o jwk : jwk \in plain}
            \cup {jwk \o << <<"use", "sig">> >> : jwk \in plain}
            \cup {Without(PublicJwk(d), RequiredFields[i]) : d \in PrivateKeys, i \in 1..4}

\* an argument of the call: an object with its fields, or null
ObjectArg(jwk) == [isObject |-> TRUE, fields |-> jwk]
NullArg == [isObject |-> FALSE, fields |-> <<>>]
ThumbprintArgs == {ObjectArg(jwk) : jwk \in JwkObjects} \cup {NullArg}

\* crypto.js:7-21: reading jwk.crv of null throws, the catch throws
\* 'Failed to generate key thumbprint'; an object never makes the body throw
Threw == [threw |-> TRUE, value |-> Sha256(<<>>)]
Returned(v) == [threw |-> FALSE, value |-> v]
generateKeyThumbprintCall(arg) ==
  IF ~arg.isObject THEN Threw ELSE Returned(generateKeyThumbprint(arg.fields))

NotComputed == [a |-> Threw, b |-> Threw, done |-> FALSE]

InitThumbprint ==
  /\ jtiCache = {}
  /\ isActive = [k \in DeviceKeyIds |-> TRUE]
  /\ nodeEnv = "development"
  /\ pc = [r \in Requests |-> "idle"]
  /\ req = [r \in Requests |-> IdleRequest]
  /\ res = [r \in Requests |-> NoResponse]
  /\ passes = [j \in 0..NumJti |-> 0]
  /\ call \in [a : ThumbprintArgs, b : ThumbprintArgs]
  /\ result = NotComputed
  /\ requestPatterns = NoPattern
  /\ client = NoClient

ComputeThumbprints ==
  /\ ~result.done
  /\ result' = [a |-> generateKeyThumbprintCall(call.a),
                b |-> generateKeyThumbprintCall(call.b), done |-> TRUE]
  /\ UNCHANGED <<jtiCache, isActive, nodeEnv, pc, req, res, passes, call, scrapingVars>>

NextThumbprint == ComputeThumbprints

SpecThumbprint == InitThumbprint /\ [][NextThumbprint]_vars

\* the argument has a value for the field
HasField(arg, f) == arg.isObject /\ Field(arg.fields, f) # Undefined

SameKeyMaterial(a, b) ==
  /\ a.isObject /\ b.isObject
  /\ \A i \in 1..4 : Field(a.fields, RequiredFields[i]) = Field(b.fields, RequiredFields[i])

C14_FailsIffFieldAbsent ==
  result.done =>
    ( result.a.threw <=> \E i \in 1..4 : ~HasField(call.a, RequiredFields[i]) )

(***************************************************************************)
(* The anti-scraping middleware (SpecScraping): one client, whose id is    *)
(* fixed by its user-agent, accept-language and accept-encoding headers    *)
(* and its address, sends up to MaxRequests requests along its route at    *)
(* its pace, each with an accept header and a referer of its choice, and   *)
(* stays away for a while up to MaxBreaks times, with up to MaxAfterBreak  *)
(* requests after a break.                                                 *)
(* The middleware has no await: a request is handled in one step.          *)
(***************************************************************************)
MaxRequests == 62
MaxBreaks == 1
\* requests the client still sends after a break
MaxAfterBreak == 3

Browser(pace, route) ==
  [userAgent |-> BrowserUserAgent, acceptLanguage |-> <<"e","n","-","U","S">>,
   acceptEncoding |-> <<"gzip", "deflate", "br">>, authorization |-> FALSE,
   pace |-> pace, route |-> route]

\* pace: the milliseconds between requests, repeated; route: which paths;
\* authorization: the client holds a token and sends it with every request
ClientProfiles ==
  {Browser(<<1000>>, "numbered"), Browser(<<990, 1010>>, "catalog"),
   Browser(<<700, 1300>>, "numbered"), Browser(<<20000>>, "pair"),
   Browser(<<100, 100, 59800>>, "pair"), Browser(<<1000>>, "home"),
   Browser(<<1000>>, "api"),
   [Browser(<<1000>>, "api") EXCEPT !.authorization = TRUE],
   [Browser(<<1000>>, "numbered") EXCEPT !.authorization = TRUE],
   [Browser(<<1000>>, "home") EXCEPT !.userAgent = LibraryUserAgent],
   [Browser(<<1000>>, "home") EXCEPT !.acceptEncoding = <<"identity">>],
   [Browser(<<1000>>, "home") EXCEPT !.acceptLanguage = <<>>, !.acceptEncoding = <<>>]}

\* the path of the k-th request of a route
RoutePath(route, k) ==
  CASE route = "numbered" -> RootNumbered(k)
    [] route = "catalog" -> Path("/items", k, "")
    [] route = "pair" -> RootNumbered(1 + (k % 2))
    [] route = "api" -> Path("/api", -1, "health")
    [] OTHER -> RootPath

\* what a client chooses per request
RequestVariants ==
  {[accept |-> <<"text/html", "application/xhtml+xml">>, referer |-> TRUE],
   [accept |-> <<"text/html", "application/xhtml+xml">>, referer |-> FALSE],
   [accept |-> <<"*/*">>, referer |-> TRUE],
   [accept |-> <<"application/json">>, referer |-> TRUE]}

BuildRequest(profile, variant, k) ==
  [userAgent |-> profile.userAgent, accept |-> variant.accept,
   acceptLanguage |-> profile.acceptLanguage, acceptEncoding |-> profile.acceptEncoding,
   referer |-> variant.referer, authorization |-> profile.authorization,
   path |-> RoutePath(profile.route, k)]

Outcome(status, code, detected) == [status |-> status, code |-> code, detected |-> detected]

InitScraping ==
  /\ jtiCache = {}
  /\ isActive = [k \in DeviceKeyIds |-> TRUE]
  /\ nodeEnv = "development"
  /\ pc = [r \in Requests |-> "idle"]
  /\ req = [r \in Requests |-> IdleRequest]
  /\ res = [r \in Requests |-> NoResponse]
  /\ passes = [j \in 0..NumJti |-> 0]
  /\ call = NoCall
  /\ result = NotCalled
  /\ requestPatterns = NoPattern
  /\ client \in {[NoClient EXCEPT !.profile = p, !.left = MaxRequests, !.now = EpochMs] :
                   p \in ClientProfiles}

\* antiScraping.js:13-43: the middleware function, for the next request of the client
\* a middleware that analyzes every request
NeverSkipped(request) == FALSE

\* antiScraping.js:15-18  authenticated API calls go straight to next()
Skipped(request) == IsApiPath(request.path) /\ request.authorization

Middleware ==
  /\ client.left > 0
  /\ \E variant \in RequestVariants :
       LET pace == client.profile.pace
           now == client.now + pace[(client.sent % Len(pace)) + 1]
           request == BuildRequest(client.profile, variant, client.sent + 1)
           analyzed == analyzeRequestPattern(requestPatterns, request, now)
           detected == detectBot(request, analyzed)
           skipped == Skipped(request)
           outcome ==
             IF skipped THEN Outcome(0, "next", FALSE)
             ELSE IF detected THEN Outcome(403, "BOT_DETECTED", TRUE)
             ELSE IF isRequestTooFrequent(analyzed, now)
                  THEN Outcome(429, "high_frequency", FALSE)
             ELSE IF ~validateBrowserHeaders(request)
                  THEN Outcome(403, "SUSPICIOUS_ACTIVITY", FALSE)
             ELSE Outcome(0, "next", FALSE)
       IN  /\ requestPatterns' =
                IF skipped THEN requestPatterns
                ELSE IF outcome.status = 429 \/ outcome.code = "SUSPICIOUS_ACTIVITY"
                     THEN Penalized(analyzed)
                     ELSE analyzed
           /\ client' = [client EXCEPT !.sent = @ + 1, !.left = @ - 1, !.now = now,
                                       !.request = request, !.outcome = outcome,
                                       !.scoreBefore = requestPatterns.suspicionScore]
  /\ UNCHANGED <<jtiCache, isActive, nodeEnv, pc, req, res, passes, call, result>>

\* the client sends nothing for five minutes, for a quarter of an hour, or for an hour
TakeBreak ==
  /\ client.sent > 0 /\ client.breaks < MaxBreaks
  /\ \E away \in {300000, 900000, 3600000} :
       client' = [client EXCEPT !.now = @ + away, !.breaks = @ + 1,
                                !.left = Min2(@, MaxAfterBreak)]
  /\ UNCHANGED <<jtiCache, isActive, nodeEnv, pc, req, res, passes, call, result,
                 requestPatterns>>

\* antiScraping.js:349-351: the cleanup timer fires
Cleanup ==
  /\ requestPatterns' = CleanedPattern(requestPatterns, client.now)
  /\ UNCHANGED <<jtiCache, isActive, nodeEnv, pc, req, res, passes, call, result, client>>

NextScraping == Middleware \/ TakeBreak \/ Cleanup

SpecScraping == InitScraping /\ [][NextScraping]_vars

\* the score calculateSuspicionScore gives the client's window as it is now
WindowScore == calculateSuspicionScore(requestPatterns)

\* the last request went through analyzeRequestPattern and detectBot
Analyzed ==
  client.sent > 0 /\ ~(IsApiPath(client.request.path) /\ client.request.authorization)

\* the last request ended in handleSuspiciousActivity
PenaltyApplied == client.outcome.code \in {"high_frequency", "SUSPICIOUS_ACTIVITY"}

(***************************************************************************)
(* C15: the stored suspicion score of the client is within 0..100 in every *)
(* reachable state, also right after handleSuspiciousActivity added 20.    *)
(***************************************************************************)
C15_ScoreWithinBounds ==
  /\ requestPatterns.suspicionScore >= 0
  /\ requestPatterns.suspicionScore <= 100
  /\ PenaltyApplied /\ requestPatterns.tracked => requestPatterns.suspicionScore >= 20

\* a client whose window scored 70 was penalized: its stored score is 90
C15_PenaltyOnTopOfSeventy ==
  PenaltyApplied /\ WindowScore = 70 /\ requestPatterns.suspicionScore = 90

(***************************************************************************)
(* C16 as stated: once the score of a client is above 70, the request it   *)
(* sends next leaves the score above 70 whenever the window then still     *)
(* holds an earlier request.                                               *)
(***************************************************************************)
C16_FlaggedIsSticky ==
  [][/\ ScoreFlagged(requestPatterns)
     /\ client'.sent = client.sent + 1
     /\ Len(requestPatterns'.requests) > 1
     => requestPatterns'.suspicionScore > 70]_vars

(***************************************************************************)
(* C16: the score keeps no memory of having been above 70.  After every    *)
(* request it is the score of the window as it is then (plus 20 when the   *)
(* request was penalized), so it falls to 70 or below as soon as the       *)
(* signals of the window no longer add up to more, also while the window   *)
(* still holds earlier requests; the paths and user agents seen are the    *)
(* only history that outlives the window, until cleanup deletes the entry. *)
(***************************************************************************)
C16_ScoreOfCurrentWindow ==
  /\ requestPatterns.tracked =>
       requestPatterns.suspicionScore = WindowScore + (IF PenaltyApplied THEN 20 ELSE 0)
  /\ ~requestPatterns.tracked => requestPatterns.suspicionScore = 0

\* a client that made 60 evenly spaced requests and then one more after a break:
\* all 61 are in the window, and the score is not above 70
C16_UnflaggedWithFullWindow ==
  /\ client.profile.pace = <<990, 1010>> /\ client.breaks = 1
  /\ Len(requestPatterns.requests) = 61
  /\ requestPatterns.suspicionScore <= 70

\* the state is the one the last request left behind: the request went through
\* detectBot and is the newest entry of the window
JustHandled ==
  /\ Analyzed /\ requestPatterns.tracked
  /\ requestPatterns.requests[Len(requestPatterns.requests)].timestamp = client.now

C17_DetectBotExactly ==
  JustHandled =>
    LET request == client.request
        missing == (IF request.accept = <<>> THEN 1 ELSE 0)
                     + (IF request.acceptLanguage = <<>> THEN 1 ELSE 0)
                     + (IF request.acceptEncoding = <<>> THEN 1 ELSE 0)
    IN  client.outcome.detected <=>
          \/ IsBotUserAgent(request.userAgent)
          \/ missing > 1
          \/ request.accept \in {<<"*/*">>, <<>>}
          \/ ~request.referer /\ request.path # RootPath /\ ~IsApiPath(request.path)
          \/ WindowScore > 70

\* a client whose score is exactly 70 and whose request shows no sign of a bot
C17_NotDetectedAtSeventy ==
  JustHandled /\ WindowScore = 70 /\ ~client.outcome.detected

\* the client requests sequentially numbered paths at near-identical intervals
Sequential == client.profile.route \in {"numbered", "catalog"}
EvenlyPaced == client.profile.pace \in {<<1000>>, <<990, 1010>>}

C19_SlowBrowserNeverFlagged ==
  client.profile.route = "pair" /\ client.sent > 0 =>
    /\ WindowScore <= 70
    /\ client.request.referer /\ client.request.accept[1] = "text/html" =>
         ~StatelessBotPredicate(client.request) /\ ~client.outcome.detected

\* ten minutes of such a client: 30 requests in the window, two paths seen
C19_TenMinutesOfBrowsing ==
  /\ client.profile.route = "pair" /\ client.profile.pace = <<20000>>
  /\ Len(requestPatterns.requests) = 30 /\ client.sent > 30
  /\ Cardinality(requestPatterns.paths) = 2
  /\ client.outcome.code = "next"

\* the signals of the score other than path diversity
OtherPoints ==
  FrequencyPoints(Len(requestPatterns.requests)) + IntervalPoints(requestPatterns.requests)
    + SequentialPoints(requestPatterns.paths) + UserAgentPoints(requestPatterns.userAgents)

\* 20 when distinct paths / total requests > 0.8, 15 when it is < 0.1
RatioPoints ==
  LET total == Len(requestPatterns.requests)
      distinct == Cardinality(requestPatterns.paths)
  IN  (IF distinct * 10 > 8 * total THEN 20 ELSE 0) + (IF distinct * 10 < total THEN 15 ELSE 0)

(***************************************************************************)
(* C20 as stated: for every window, whatever its number of requests, the   *)
(* score includes 20 when distinct paths / total requests is above 0.8 and *)
(* 15 when it is below 0.1.                                                *)
(***************************************************************************)
C20_DiversityInEveryWindow ==
  requestPatterns.tracked => WindowScore = Min2(OtherPoints + RatioPoints, 100)

(***************************************************************************)
(* C20: for every window of more than 10 requests the score, before its    *)
(* cap at 100, includes 20 when paths seen / requests in the window is     *)
(* above 0.8 and 15 when it is below 0.1; a window of 10 requests or fewer *)
(* gets nothing for path diversity.                                        *)
(***************************************************************************)
C20_DiversityInLargerWindows ==
  requestPatterns.tracked =>
    WindowScore = Min2(OtherPoints
                         + (IF Len(requestPatterns.requests) > 10 THEN RatioPoints ELSE 0),
                       100)

\* a window of 10 requests to 10 paths scores nothing for diversity, the next
\* request brings the 20 points
C20_EleventhRequestCounts ==
  /\ Len(requestPatterns.requests) = 11 /\ Cardinality(requestPatterns.paths) = 11
  /\ WindowScore = OtherPoints + 20

\* some observed path ends in an integer n while the same path with n + 1 or
\* n - 1 in its place was observed too
AdjacentPathsObserved ==
  \E p, q \in requestPatterns.paths :
    /\ p.num >= 0
    /\ q.prefix = p.prefix /\ q.name = p.name
    /\ q.num = p.num + 1 \/ q.num = p.num - 1

(***************************************************************************)
(* C21: the score includes the 20 points of the sequential-path signal     *)
(* when some observed path ends in an integer n and the same path with     *)
(* n + 1 or n - 1 was observed too (/items/4 and /items/5), and does not   *)
(* include them otherwise.                                                 *)
(***************************************************************************)
C21_SequentialSignalForAdjacentPaths ==
  requestPatterns.tracked =>
    WindowScore =
      Min2(FrequencyPoints(Len(requestPatterns.requests))
             + IntervalPoints(requestPatterns.requests)
             + DiversityPoints(Cardinality(requestPatterns.paths), Len(requestPatterns.requests))
             + UserAgentPoints(requestPatterns.userAgents)
             + (IF AdjacentPathsObserved THEN 20 ELSE 0),
           100)

\* the newest entry of the client's window is its last request
LastRequestRecorded ==
  /\ requestPatterns.tracked
  /\ requestPatterns.requests[Len(requestPatterns.requests)] =
       [timestamp |-> client.now, path |-> client.request.path]
  /\ client.request.path \in requestPatterns.paths
  /\ requestPatterns.suspicionScore >= WindowScore

(***************************************************************************)
(* C22 as stated: every request, also one to an /api/ path that carries an *)
(* Authorization header, is appended to the window of its client and       *)
(* scored.                                                                 *)
(***************************************************************************)
C22_EveryRequestClassified ==
  client.sent > 0 /\ client.breaks = 0 => LastRequestRecorded

(***************************************************************************)
(* C22: a request is appended to the window of its client and scored       *)
(* unless its path is under /api/ and it carries an Authorization header;  *)
(* such a request goes to next() without being recorded or scored, so a    *)
(* client that sends nothing else is never tracked.                        *)
(***************************************************************************)
C22_AuthorizedApiRequestsBypass ==
  /\ client.sent > 0 /\ client.breaks = 0 /\ ~Skipped(client.request) => LastRequestRecorded
  /\ client.profile.route = "api" /\ client.profile.authorization =>
       requestPatterns = NoPattern /\ client.outcome.code \in {"", "next"}

\* sixty authorized requests to /api/health within a minute, none recorded
C22_SixtyUnrecordedRequests ==
  /\ client.sent = 60 /\ client.breaks = 0
  /\ Skipped(client.request) /\ client.request.userAgent = BrowserUserAgent
  /\ requestPatterns = NoPattern /\ client.outcome.code = "next"

\* every recorded request of the client is at least age milliseconds old
AllOlderThan(age) ==
  \A i \in 1..Len(requestPatterns.requests) :
    client.now - requestPatterns.requests[i].timestamp >= age

(***************************************************************************)
(* C23 as stated: a housekeeping pass evicts a client whose recorded       *)
(* requests are all older than the 10 minutes of the window.               *)
(***************************************************************************)
C23_EvictedAfterTenMinutes ==
  requestPatterns.tracked /\ AllOlderThan(600000) =>
    CleanedPattern(requestPatterns, client.now) = NoPattern

\* the request just handled, as the only content of a window
FreshWindow ==
  /\ requestPatterns.requests = <<[timestamp |-> client.now, path |-> client.request.path]>>
  /\ requestPatterns.paths = {client.request.path}
  /\ requestPatterns.userAgents = {client.request.userAgent}

(***************************************************************************)
(* C23: a housekeeping pass evicts a client exactly when its recorded      *)
(* requests are all at least one hour old, and leaves any other client as  *)
(* it is; the first analyzed request of a client that is not tracked       *)
(* starts a fresh window, while a request of a client that is still        *)
(* tracked, however old its recorded requests, adds to the paths and user  *)
(* agents already seen.                                                    *)
(***************************************************************************)
C23_EvictedAfterAnHour ==
  /\ [](requestPatterns.tracked =>
          IF AllOlderThan(3600000)
          THEN CleanedPattern(requestPatterns, client.now) = NoPattern
          ELSE CleanedPattern(requestPatterns, client.now) = requestPatterns)
  /\ [][client'.sent = client.sent + 1 /\ ~Skipped(client'.request) =>
          IF requestPatterns.tracked
          THEN /\ requestPatterns'.paths = requestPatterns.paths \cup {client'.request.path}
               /\ requestPatterns'.userAgents =
                    requestPatterns.userAgents \cup {client'.request.userAgent}
          ELSE FreshWindow']_vars

\* a client that was away for a quarter of an hour: its request is alone in the
\* window, next to the paths of the requests before
C23_OldPathsAfterQuarterHour ==
  /\ client.breaks = 1 /\ JustHandled
  /\ Len(requestPatterns.requests) = 1
  /\ Cardinality(requestPatterns.paths) > 1

(***************************************************************************)
(* C37: the set of distinct paths of the client is exactly the set of      *)
(* paths of the requests in its window, so it never has more elements than *)
(* the window has requests.  It fails: analyzeRequestPattern and cleanup   *)
(* trim pattern.requests only, pattern.paths keeps every path ever added.  *)
(***************************************************************************)
C37_PathsAreThoseOfTheWindow ==
  requestPatterns.tracked =>
    /\ requestPatterns.paths =
         {requestPatterns.requests[i].path : i \in 1..Len(requestPatterns.requests)}
    /\ Cardinality(requestPatterns.paths) <= Len(requestPatterns.requests)

\* the requests of the client in the last 60 seconds
RequestsInLastMinute ==
  Cardinality({i \in 1..Len(requestPatterns.requests) :
                 client.now - requestPatterns.requests[i].timestamp < 60000})

\* the last request was classified as a bot
ClassifiedAsBot == StatelessBotPredicate(client.request) \/ WindowScore > 70

(***************************************************************************)
(* C24: the middleware answers a request classified as a bot with 403 and  *)
(* a request of a client with more than 30 requests in the last 60 seconds *)
(* with 429; the bot check comes first, so a request that is both gets     *)
(* 403; a request that is neither and has valid browser headers goes to    *)
(* next() and gets no response from the middleware.                        *)
(***************************************************************************)
C24_BotBeforeFrequency ==
  JustHandled =>
    /\ ClassifiedAsBot => client.outcome.status = 403 /\ client.outcome.code = "BOT_DETECTED"
    /\ ~ClassifiedAsBot /\ RequestsInLastMinute > 30 =>
         client.outcome.status = 429 /\ client.outcome.code = "high_frequency"
    /\ ~ClassifiedAsBot /\ RequestsInLastMinute <= 30 /\ validateBrowserHeaders(client.request) =>
         client.outcome.status = 0 /\ client.outcome.code = "next"

\* a request of a client that is both a bot by its score and too frequent: 403
C24_FrequentBotGets403 ==
  /\ JustHandled /\ ~StatelessBotPredicate(client.request)
  /\ WindowScore > 70 /\ RequestsInLastMinute > 30
  /\ client.outcome.status = 403

(***************************************************************************)
(* Calls of compareFingerprintSimilarity and generateFingerprintHash       *)
(* (crypto.js:186-261) on pairs of fingerprint arguments.                  *)
(***************************************************************************)
WithUserAgent(ua) == [RegisteredFingerprint EXCEPT !.ua = ua]

\* user agents: the registered Chrome/120, later Chrome versions, the same major
\* version, other browsers, strings without a browser pattern, no string at all
UserAgentSamples ==
  {Str(<<"C","h","r","o","m","e","/","1","2","4">>), Str(<<"C","h","r","o","m","e","/","1","2","5">>),
   Str(<<"C","h","r","o","m","e","/","1","2","6">>), Str(<<"C","h","r","o","m","e","/","1","3","1">>),
   Str(<<"C","h","r","o","m","e","/","1","2","0",".","1">>),
   Str(<<"F","i","r","e","f","o","x","/","1","2","0">>),
   Str(<<"C","h","r","o","m","e","/","1","2","0"," ","S","a","f","a","r","i","/","5","3","7">>),
   Str(<<"S","a","f","a","r","i","/","5","3","7">>),
   Str(<<"c","u","r","l","/","8">>), Str(<<"L","y","n","x">>),
   Undef, Num(7)}

\* fingerprints: the registered one, other user agents, another timezone, and
\* fields that are missing or hold the value the hash puts in their place
FingerprintSamples ==
  {RegisteredFingerprint} \cup {WithUserAgent(ua) : ua \in UserAgentSamples}
    \cup {[RegisteredFingerprint EXCEPT !.tz = Str(<<"C","E","T">>)],
          [RegisteredFingerprint EXCEPT !.tz = Undef],
          [RegisteredFingerprint EXCEPT !.tz = Str(<<>>)],
          [RegisteredFingerprint EXCEPT !.hwc = Num(6)],
          [RegisteredFingerprint EXCEPT !.hwc = Undef, !.mem = Undef],
          [RegisteredFingerprint EXCEPT !.hwc = Num(0), !.mem = Num(0)]}

Unparseable == [present |-> TRUE, parses |-> FALSE, data |-> RegisteredFingerprint]

FingerprintArgs == {Header(d) : d \in FingerprintSamples} \cup {NoFingerprint, Unparseable}

\* crypto.js:187-189, 215-218: null for an argument that is no object
NullHash == <<>>
generateFingerprintHashCall(arg) ==
  IF arg.present /\ arg.parses THEN generateFingerprintHash(arg.data) ELSE NullHash

NothingCompared ==
  [compared |-> FALSE, similarity |-> <<0, 1>>, reversed |-> <<0, 1>>,
   hashed |-> FALSE, storedHash |-> NullHash, currentHash |-> NullHash]

InitFingerprint ==
  /\ jtiCache = {}
  /\ isActive = [k \in DeviceKeyIds |-> TRUE]
  /\ nodeEnv = "development"
  /\ pc = [r \in Requests |-> "idle"]
  /\ req = [r \in Requests |-> IdleRequest]
  /\ res = [r \in Requests |-> NoResponse]
  /\ passes = [j \in 0..NumJti |-> 0]
  /\ call \in [stored : FingerprintArgs, current : FingerprintArgs]
  /\ result = NothingCompared
  /\ requestPatterns = NoPattern
  /\ client = NoClient

\* compareFingerprintSimilarity(stored, current) and, with the arguments
\* exchanged, compareFingerprintSimilarity(current, stored)
CompareFingerprints ==
  /\ ~result.compared
  /\ result' = [result EXCEPT !.compared = TRUE,
                              !.similarity = compareFingerprintSimilarity(call.stored, call.current),
                              !.reversed = compareFingerprintSimilarity(call.current, call.stored)]
  /\ UNCHANGED <<jtiCache, isActive, nodeEnv, pc, req, res, passes, call, scrapingVars>>

\* generateFingerprintHash of both arguments
HashFingerprints ==
  /\ ~result.hashed
  /\ result' = [result EXCEPT !.hashed = TRUE,
                              !.storedHash = generateFingerprintHashCall(call.stored),
                              !.currentHash = generateFingerprintHashCall(call.current)]
  /\ UNCHANGED <<jtiCache, isActive, nodeEnv, pc, req, res, passes, call, scrapingVars>>

NextFingerprint == CompareFingerprints \/ HashFingerprints

SpecFingerprint == InitFingerprint /\ [][NextFingerprint]_vars

\* the argument is a fingerprint object, or a string that parses to one
Parsed(arg) == arg.present /\ arg.parses

(***************************************************************************)
(* C25: compareFingerprintSimilarity(fp, fp) is exactly 1 for every        *)
(* fingerprint fp, and the result is 0 when either argument is absent or   *)
(* does not parse.                                                         *)
(***************************************************************************)
C25_SelfSimilarityIsOne ==
  result.compared =>
    /\ Parsed(call.stored) /\ call.current = call.stored =>
         result.similarity[1] = result.similarity[2] /\ result.similarity[2] > 0
    /\ ~Parsed(call.stored) \/ ~Parsed(call.current) => result.similarity[1] = 0

\* a fingerprint compared with itself, its user agent of no known browser
C25_ComparedWithItself ==
  /\ result.compared /\ call.current = call.stored
  /\ call.stored = Header(WithUserAgent(Str(<<"L","y","n","x">>)))
  /\ result.similarity[1] = result.similarity[2]

\* two rational scores are the same number
SameScore(a, b) == a[1] * b[2] = b[1] * a[2]

(***************************************************************************)
(* C26: compareFingerprintSimilarity is symmetric: similarity(a, b) equals *)
(* similarity(b, a) for all arguments a and b, also when the user agents   *)
(* differ and the browser version or the string similarity decides.        *)
(***************************************************************************)
C26_SimilarityIsSymmetric ==
  result.compared => SameScore(result.similarity, result.reversed)

\* user agents of different lengths, one without a browser pattern: the string
\* similarity decided, and gave something
C26_StringFallbackBothWays ==
  /\ result.compared
  /\ Parsed(call.stored) /\ Parsed(call.current)
  /\ call.stored.data.ua = Str(<<"c","u","r","l","/","8">>)
  /\ call.current.data.ua = Str(<<"C","h","r","o","m","e","/","1","2","0">>)
  /\ result.similarity = result.reversed
  /\ result.similarity[1] * 100 > 70 * result.similarity[2]
  /\ result.similarity[1] < result.similarity[2]

\* both arguments parse and their user agents are two different strings
DifferentUserAgents ==
  /\ Parsed(call.stored) /\ Parsed(call.current)
  /\ call.stored.data.ua.t = "string" /\ call.current.data.ua.t = "string"
  /\ call.stored.data.ua # call.current.data.ua

StoredBrowser == extractBrowserInfo(call.stored.data.ua.s)
CurrentBrowser == extractBrowserInfo(call.current.data.ua.s)
SameFamily ==
  DifferentUserAgents /\ StoredBrowser.browser # 0
    /\ StoredBrowser.browser = CurrentBrowser.browser
OtherFamily ==
  DifferentUserAgents /\ StoredBrowser.browser # 0 /\ CurrentBrowser.browser # 0
    /\ StoredBrowser.browser # CurrentBrowser.browser
VersionDelta == Abs(StoredBrowser.majorVersion - CurrentBrowser.majorVersion)

\* the weights of the fields other than ua on which the arguments agree
OtherFieldsAgreeing ==
  SumOver(Weights, {k \in DOMAIN Weights \ {"ua"} : call.stored.data[k] = call.current.data[k]})

\* the similarity is (the agreeing weights + the ua weight times tenths / 10) / 100
UserAgentContributes(tenths) ==
  SameScore(result.similarity, <<OtherFieldsAgreeing * 10 + Weights.ua * tenths, 1000>>)

(***************************************************************************)
(* C27 as stated: user agents of the same browser family whose major       *)
(* versions differ by d contribute the ua weight times max(0, 1 - d/10),   *)
(* a factor strictly above 0.5 for every d from 0 to 5; user agents of     *)
(* different families contribute 0.                                        *)
(***************************************************************************)
C27_AboveHalfUpToFive ==
  result.compared =>
    /\ SameFamily =>
         /\ UserAgentContributes(Max2(0, 10 - VersionDelta))
         /\ VersionDelta <= 5 => 2 * Max2(0, 10 - VersionDelta) > 10
    /\ OtherFamily => UserAgentContributes(0)

(***************************************************************************)
(* C27: user agents of the same browser family whose major versions differ *)
(* by d contribute the ua weight times max(0, 1 - d/10); that factor is at *)
(* least 0.5 for every d from 0 to 5 and strictly above 0.5 exactly when   *)
(* d is at most 4; user agents of different families contribute 0.         *)
(***************************************************************************)
C27_AtLeastHalfUpToFive ==
  result.compared =>
    /\ SameFamily =>
         /\ UserAgentContributes(Max2(0, 10 - VersionDelta))
         /\ VersionDelta <= 5 => 2 * Max2(0, 10 - VersionDelta) >= 10
         /\ 2 * Max2(0, 10 - VersionDelta) > 10 <=> VersionDelta <= 4
    /\ OtherFamily => UserAgentContributes(0)

\* Chrome/120 against Chrome/125: the user agent counts for half its weight
C27_HalfAtFiveVersions ==
  /\ result.compared /\ SameFamily /\ VersionDelta = 5
  /\ OtherFieldsAgreeing = 70
  /\ SameScore(result.similarity, <<85, 100>>)

IsHexString(h) == \A i \in 1..Len(h) : \E d \in 1..16 : HexDigits[d] = h[i]

\* the fingerprints agree once missing fields have their default value
SameNormalized ==
  /\ Parsed(call.stored) /\ Parsed(call.current)
  /\ Normalized(call.stored.data) = Normalized(call.current.data)

(***************************************************************************)
(* C28 as stated: generateFingerprintHash returns a string of 8 hex        *)
(* digits, and a fingerprint with a field missing hashes like the same     *)
(* fingerprint with that field at its default value.                       *)
(***************************************************************************)
C28_EightHexDigits ==
  result.hashed =>
    /\ Parsed(call.stored) => Len(result.storedHash) = 8 /\ IsHexString(result.storedHash)
    /\ SameNormalized => result.storedHash = result.currentHash

(***************************************************************************)
(* C28: generateFingerprintHash returns the 32-bit hash in hexadecimal     *)
(* without leading zeros, a string of 1 to 8 hex digits, and a fingerprint *)
(* with a field missing hashes like the same fingerprint with that field   *)
(* at its default value ('' or 0).                                         *)
(***************************************************************************)
C28_UpToEightHexDigits ==
  result.hashed =>
    /\ Parsed(call.stored) =>
         /\ Len(result.storedHash) \in 1..8 /\ IsHexString(result.storedHash)
         /\ Len(result.storedHash) > 1 => result.storedHash[1] # "0"
    /\ ~Parsed(call.stored) => result.storedHash = NullHash
    /\ SameNormalized => result.storedHash = result.currentHash

\* no hwc and no mem against hwc 0 and mem 0: the same hash, of seven digits
C28_SevenDigitsForDefaults ==
  /\ result.hashed
  /\ call.stored = Header([RegisteredFingerprint EXCEPT !.hwc = Undef, !.mem = Undef])
  /\ call.current = Header([RegisteredFingerprint EXCEPT !.hwc = Num(0), !.mem = Num(0)])
  /\ result.storedHash = result.currentHash
  /\ result.storedHash = <<"f","5","1","6","4","8","6">>


(***************************************************************************)
(* The client identity (SpecIdentity).  antiScraping.js:47-56 joins the    *)
(* user-agent, accept-language and accept-encoding headers and the remote  *)
(* address with "|" and keeps 16 hex digits of the SHA-256 digest of the   *)
(* joined string.  The digest is a function of the joined string, so the   *)
(* model takes the joined string as the id: requests with the same joined  *)
(* string have the same id.  requestPatterns is the whole Map here, a      *)
(* function from the ids seen to their entries.                            *)
(***************************************************************************)
\* Array.prototype.join
RECURSIVE JoinWith(_, _)
JoinWith(parts, sep) ==
  IF Len(parts) = 0 THEN <<>>
  ELSE IF Len(parts) = 1 THEN parts[1]
  ELSE parts[1] \o sep \o JoinWith(Tail(parts), sep)

getClientId(request, remoteAddress) ==
  JoinWith(<<request.userAgent, request.acceptLanguage, request.acceptEncoding,
             remoteAddress>>, <<"|">>)

\* requestPatterns.get(clientId) || a new entry
PatternOf(patterns, clientId) ==
  IF clientId \in DOMAIN patterns THEN patterns[clientId] ELSE NoPattern

\* requestPatterns.set(clientId, pattern)
SetPattern(patterns, clientId, pattern) ==
  [id \in DOMAIN patterns \cup {clientId} |->
     IF id = clientId THEN pattern ELSE patterns[id]]

\* the requests one address sends in a row
MaxObserved == 4

\* header values of one address: the same line of characters, cut into a user
\* agent and an accept-language header at different places
HeaderLine == <<"M","|","5","|","e","|","U","|","x">>
IdentityHeaders ==
  {[userAgent |-> SubSeq(HeaderLine, 1, n), acceptLanguage |-> SubSeq(HeaderLine, m, 9)] :
     n \in {1, 3, 5, 7}, m \in {3, 5, 7, 9}}
RemoteAddress == <<"1","0",".","0",".","0",".","7">>

IdentityRequest(headers) ==
  [userAgent |-> headers.userAgent, accept |-> <<"text/html">>,
   acceptLanguage |-> headers.acceptLanguage, acceptEncoding |-> <<"gzip">>,
   referer |-> TRUE, authorization |-> FALSE, path |-> RootPath]

InitIdentity ==
  /\ jtiCache = {}
  /\ isActive = [k \in DeviceKeyIds |-> TRUE]
  /\ nodeEnv = "development"
  /\ pc = [r \in Requests |-> "idle"]
  /\ req = [r \in Requests |-> IdleRequest]
  /\ res = [r \in Requests |-> NoResponse]
  /\ passes = [j \in 0..NumJti |-> 0]
  /\ call = NoCall
  /\ result = NotCalled
  /\ requestPatterns = [id \in {} |-> NoPattern]
  /\ client = [NoClient EXCEPT !.left = MaxObserved, !.now = EpochMs]

\* antiScraping.js:13-43: the middleware function, the entry looked up by client id
MiddlewareById ==
  /\ client.left > 0
  /\ \E headers \in IdentityHeaders :
       LET now == client.now + 1000
           request == IdentityRequest(headers)
           clientId == getClientId(request, RemoteAddress)
           analyzed == analyzeRequestPattern(PatternOf(requestPatterns, clientId), request, now)
           detected == detectBot(request, analyzed)
           skipped == Skipped(request)
           outcome ==
             IF skipped THEN Outcome(0, "next", FALSE)
             ELSE IF detected THEN Outcome(403, "BOT_DETECTED", TRUE)
             ELSE IF isRequestTooFrequent(analyzed, now)
                  THEN Outcome(429, "high_frequency", FALSE)
             ELSE IF ~validateBrowserHeaders(request)
                  THEN Outcome(403, "SUSPICIOUS_ACTIVITY", FALSE)
             ELSE Outcome(0, "next", FALSE)
       IN  /\ requestPatterns' =
                IF skipped THEN requestPatterns
                ELSE IF outcome.status = 429 \/ outcome.code = "SUSPICIOUS_ACTIVITY"
                     THEN SetPattern(requestPatterns, clientId, Penalized(analyzed))
                     ELSE SetPattern(requestPatterns, clientId, analyzed)
           /\ client' = [client EXCEPT !.sent = @ + 1, !.left = @ - 1, !.now = now,
                                       !.request = request, !.outcome = outcome,
                                       !.scoreBefore = PatternOf(requestPatterns, clientId).suspicionScore]
  /\ UNCHANGED <<jtiCache, isActive, nodeEnv, pc, req, res, passes, call, result>>

NextIdentity == MiddlewareById

SpecIdentity == InitIdentity /\ [][NextIdentity]_vars

(***************************************************************************)
(* C35: the set of distinct user agents of every tracked client holds at   *)
(* most one value, and the user-agent signal adds nothing to any score.    *)
(* It fails: four requests of one address whose user-agent and             *)
(* accept-language headers are "M" and "5|e|U|x", "M|5" and "e|U|x",       *)
(* "M|5|e" and "U|x", "M|5|e|U" and "x" join to the same string, so they   *)
(* share one entry, whose set then holds four user agents and whose score  *)
(* includes the 15 points.                                                 *)
(***************************************************************************)
C35_OneUserAgentPerClient ==
  \A id \in DOMAIN requestPatterns :
    /\ Cardinality(requestPatterns[id].userAgents) <= 1
    /\ UserAgentPoints(requestPatterns[id].userAgents) = 0

\* four user agents in the entry of one client id, and the 15 points in its score
C35_FourUserAgentsOneClient ==
  \E id \in DOMAIN requestPatterns :
    /\ Cardinality(requestPatterns[id].userAgents) = 4
    /\ UserAgentPoints(requestPatterns[id].userAgents) = 15
    /\ requestPatterns[id].suspicionScore >= 15

\* entries are told apart by the joined string: the user agents of one entry, each
\* followed by "|", begin the same joined string
C35_UserAgentsShareTheJoinedString ==
  \A id \in DOMAIN requestPatterns :
    \A ua \in requestPatterns[id].userAgents :
      /\ Len(ua) < Len(id)
      /\ SubSeq(id, 1, Len(ua) + 1) = ua \o <<"|">>


(***************************************************************************)
(* The response interceptor of the frontend (SpecInterceptor).             *)
(* api.js:103-137.  Every request made through apiClient passes the        *)
(* interceptor, the POST /auth/refresh the interceptor itself makes        *)
(* (api.js:114) included: that call builds a new config, which has no      *)
(* _retry mark.  call holds the chain started by one request:              *)
(*   stack     the requests of the chain whose promise is pending, the     *)
(*             newest last; a frame is "sent" while its HTTP request is in *)
(*             flight and "refreshing" while its interceptor awaits the    *)
(*             refresh it made                                             *)
(*   settled   the outcome of the promise that settled last, to be         *)
(*             delivered to the frame that awaits it                       *)
(*   refreshes, retries   history: POST /auth/refresh requests made by the *)
(*             interceptor, and requests sent again by api.js:121          *)
(*   accessToken   0 for null, 1 for the token the chain started with,     *)
(*             n + 1 after n calls of setAccessToken                       *)
(*   authFailed    'auth-failed' events dispatched                         *)
(* result is the outcome the caller of the first request gets.             *)
(***************************************************************************)
\* the longest chain of pending requests the model follows
MaxChain == 4

Frame(request, retry, stage) == [request |-> request, _retry |-> retry, stage |-> stage]
NotSettled == [kind |-> "none", status |-> 0]
Settled(kind, status) == [kind |-> kind, status |-> status]

\* what the server answers; 0: no response arrived (timeout, network error)
ResponseStatuses == {200, 401, 403, 500, 0}
OriginalRequests == {"GET /crud/posts", "GET /auth/profile", "POST /auth/logout"}

InitInterceptor ==
  /\ jtiCache = {}
  /\ isActive = [k \in DeviceKeyIds |-> TRUE]
  /\ nodeEnv = "development"
  /\ pc = [r \in Requests |-> "idle"]
  /\ req = [r \in Requests |-> IdleRequest]
  /\ res = [r \in Requests |-> NoResponse]
  /\ passes = [j \in 0..NumJti |-> 0]
  /\ requestPatterns = NoPattern
  /\ client = NoClient
  /\ result = NotSettled
  /\ \E original \in OriginalRequests, token \in {0, 1} :
       call = [stack |-> <<Frame(original, FALSE, "sent")>>, settled |-> NotSettled,
               refreshes |-> 0, retries |-> 0, accessToken |-> token, authFailed |-> 0]

\* api.js:104-110, 135: the response to the newest request arrives and passes the
\* interceptor: a response is returned as it is; a 401 for a config without the
\* _retry mark marks the config and posts /auth/refresh; any other error is rejected
ResponseArrives ==
  /\ call.settled = NotSettled /\ Len(call.stack) > 0
  /\ LET top == call.stack[Len(call.stack)]
         below == SubSeq(call.stack, 1, Len(call.stack) - 1)
     IN  /\ top.stage = "sent"
         /\ \E status \in ResponseStatuses :
              IF status = 200
              THEN call' = [call EXCEPT !.stack = below, !.settled = Settled("fulfilled", 200)]
              ELSE IF status = 401 /\ ~top._retry
              THEN /\ Len(call.stack) < MaxChain
                   /\ call' = [call EXCEPT
                        !.stack = below \o <<Frame(top.request, TRUE, "refreshing"),
                                             Frame("POST /auth/refresh", FALSE, "sent")>>,
                        !.refreshes = @ + 1]
              ELSE call' = [call EXCEPT !.stack = below, !.settled = Settled("rejected", status)]
  /\ UNCHANGED <<jtiCache, isActive, nodeEnv, pc, req, res, passes, result, scrapingVars>>

\* api.js:114-132: the refresh an interceptor awaited has settled.  Fulfilled: the
\* token is stored and the marked request is sent again, its outcome being the
\* outcome of this frame.  Rejected: on 401 or 403 clearAuth and 'auth-failed',
\* and the frame is rejected with the error of the refresh.
RefreshSettles ==
  /\ call.settled # NotSettled /\ Len(call.stack) > 0
  /\ LET top == call.stack[Len(call.stack)]
         below == SubSeq(call.stack, 1, Len(call.stack) - 1)
     IN  IF call.settled.kind = "fulfilled"
         THEN call' = [call EXCEPT
                !.stack = below \o <<Frame(top.request, TRUE, "sent")>>,
                !.settled = NotSettled,
                !.accessToken = @ + 1,
                !.refreshes = IF top.request = "POST /auth/refresh" THEN @ + 1 ELSE @,
                !.retries = IF top.request = "POST /auth/refresh" THEN @ ELSE @ + 1]
         ELSE IF call.settled.status \in {401, 403}
         THEN call' = [call EXCEPT !.stack = below, !.accessToken = 0,
                                   !.authFailed = @ + 1]
         ELSE call' = [call EXCEPT !.stack = below]
  /\ UNCHANGED <<jtiCache, isActive, nodeEnv, pc, req, res, passes, result, scrapingVars>>

\* the promise of the first request settles: its caller gets the outcome
ChainSettles ==
  /\ call.settled # NotSettled /\ Len(call.stack) = 0 /\ result = NotSettled
  /\ result' = call.settled
  /\ UNCHANGED <<jtiCache, isActive, nodeEnv, pc, req, res, passes, call, scrapingVars>>

NextInterceptor == ResponseArrives \/ RefreshSettles \/ ChainSettles

SpecInterceptor == InitInterceptor /\ [][NextInterceptor]_vars

(***************************************************************************)
(* C31: after a 401 the interceptor makes at most one POST /auth/refresh   *)
(* and sends the original request again at most once; a 401 for the        *)
(* refresh ends the chain with clearAuth and 'auth-failed'.  It fails: the *)
(* refresh is itself a request of apiClient with an unmarked config, so a  *)
(* 401 for it makes its interceptor post another refresh, and so on for as *)
(* long as the server answers 401.                                         *)
(***************************************************************************)
C31_OneRefreshOneRetry ==
  /\ call.refreshes <= 1
  /\ call.retries <= 1
  /\ \A i \in 1..Len(call.stack) :
       call.stack[i].request = "POST /auth/refresh" => call.stack[i].stage = "sent"

\* the part of C31 that holds: the request that started the chain is sent again
\* at most once
C31_OriginalRetriedAtMostOnce == call.retries <= 1

\* three refresh requests pending at once, each made for the 401 of the one before
C31_RefreshesNested ==
  /\ Len(call.stack) = 4 /\ call.refreshes = 3 /\ call.authFailed = 0
  /\ \A i \in 2..4 : call.stack[i].request = "POST /auth/refresh"


(***************************************************************************)
(* POST /auth/login and the account lockout (SpecLogin).                   *)
(* routes/auth.js:128-236, for logins with the email of one active user    *)
(* or with an unknown email.  A handler runs from one await to the next:   *)
(* the SELECT of the user (139), bcrypt.compare (156), the UPDATE of the   *)
(* counters (168 or 179).  call holds the row of the user and the clock:   *)
(*   login_attempts, locked_until   the columns; locked_until 0 is NULL    *)
(*   now           Date.now(), in units of the lockout time / 2            *)
(*   wrongCompared history: wrong passwords compared by bcrypt so far,     *)
(*                 counted until a lock or a reset is first written        *)
(*   written       history: some UPDATE of the counters has run            *)
(* result holds, per login request, the await its handler is at, the       *)
(* password it carries, the row it read, the values it is about to write   *)
(* and the status it answered.                                             *)
(***************************************************************************)
\* process.env.MAX_LOGIN_ATTEMPTS as configured for the model
MAX_LOGIN_ATTEMPTS == 2
\* process.env.LOCKOUT_TIME, in ticks of the model's clock
LOCKOUT_TIME == 2
\* concurrent login requests, and how far the clock runs
NumLogins == 3
MaxNow == 3

Logins == 1..NumLogins

IdleLogin ==
  [at |-> "idle", credentials |-> "", login_attempts |-> 0, locked_until |-> 0,
   attempts |-> 0, lockedUntil |-> 0, status |-> 0]

InitLogin ==
  /\ jtiCache = {}
  /\ isActive = [k \in DeviceKeyIds |-> TRUE]
  /\ nodeEnv = "development"
  /\ pc = [r \in Requests |-> "idle"]
  /\ req = [r \in Requests |-> IdleRequest]
  /\ res = [r \in Requests |-> NoResponse]
  /\ passes = [j \in 0..NumJti |-> 0]
  /\ requestPatterns = NoPattern
  /\ client = NoClient
  /\ call = [login_attempts |-> 0, locked_until |-> 0, now |-> 0, wrongCompared |-> 0,
             written |-> FALSE]
  /\ result = [l \in Logins |-> IdleLogin]

\* routes/auth.js:128-142: the request arrives, passes validation and awaits the SELECT
LoginArrives(l) ==
  /\ result[l].at = "idle" /\ result[l].status = 0
  /\ \E credentials \in {"correct password", "wrong password", "unknown email"} :
       result' = [result EXCEPT ![l] = [IdleLogin EXCEPT !.at = "select",
                                                          !.credentials = credentials]]
  /\ UNCHANGED <<jtiCache, isActive, nodeEnv, pc, req, res, passes, call, scrapingVars>>

\* new Date(user.locked_until) > new Date()
IsLocked(locked_until, now) == locked_until # 0 /\ locked_until > now

\* routes/auth.js:139-156: the SELECT returns: 401 for no user, 423 while locked,
\* else the handler awaits bcrypt.compare
UserSelected(l) ==
  /\ result[l].at = "select"
  /\ result' = [result EXCEPT ![l] =
       IF @.credentials = "unknown email"
       THEN [@ EXCEPT !.at = "idle", !.status = 401]
       ELSE IF IsLocked(call.locked_until, call.now)
       THEN [@ EXCEPT !.at = "idle", !.status = 423,
                      !.login_attempts = call.login_attempts,
                      !.locked_until = call.locked_until]
       ELSE [@ EXCEPT !.at = "compare", !.login_attempts = call.login_attempts,
                      !.locked_until = call.locked_until]]
  /\ UNCHANGED <<jtiCache, isActive, nodeEnv, pc, req, res, passes, call, scrapingVars>>

\* routes/auth.js:159-166: the counters a failed login writes
FailedAttempts(login_attempts) == login_attempts + 1
LockedUntilFor(attempts, now) == IF attempts >= MAX_LOGIN_ATTEMPTS THEN now + LOCKOUT_TIME ELSE 0

\* routes/auth.js:156-183: bcrypt.compare returns; the handler computes what it
\* writes from the row it read and awaits the UPDATE
PasswordCompared(l) ==
  /\ result[l].at = "compare"
  /\ LET attempts == FailedAttempts(result[l].login_attempts)
     IN  IF result[l].credentials = "wrong password"
         THEN /\ result' = [result EXCEPT ![l] =
                   [@ EXCEPT !.at = "update", !.attempts = attempts,
                             !.lockedUntil = LockedUntilFor(attempts, call.now)]]
              /\ call' = [call EXCEPT !.wrongCompared =
                            IF call.written THEN @ ELSE @ + 1]
         ELSE /\ result' = [result EXCEPT ![l] =
                   [@ EXCEPT !.at = "update", !.attempts = 0, !.lockedUntil = 0]]
              /\ call' = call
  /\ UNCHANGED <<jtiCache, isActive, nodeEnv, pc, req, res, passes, scrapingVars>>

\* routes/auth.js:168-175, 179-230: the UPDATE runs and the handler answers: 401
\* after a wrong password, 200 after the correct one
CountersUpdated(l) ==
  /\ result[l].at = "update"
  /\ call' = [call EXCEPT !.login_attempts = result[l].attempts,
                          !.locked_until = result[l].lockedUntil,
                          !.written = @ \/ result[l].lockedUntil # 0
                                        \/ result[l].credentials = "correct password"]
  /\ result' = [result EXCEPT ![l] =
       [@ EXCEPT !.at = "idle",
                 !.status = IF result[l].credentials = "wrong password" THEN 401 ELSE 200]]
  /\ UNCHANGED <<jtiCache, isActive, nodeEnv, pc, req, res, passes, scrapingVars>>

\* routes/auth.js:231-235: a query throws
LoginFails(l) ==
  /\ result[l].at \in {"select", "update"}
  /\ result' = [result EXCEPT ![l] = [@ EXCEPT !.at = "idle", !.status = 500]]
  /\ UNCHANGED <<jtiCache, isActive, nodeEnv, pc, req, res, passes, call, scrapingVars>>

\* time passes
Tick ==
  /\ call.now < MaxNow
  /\ call' = [call EXCEPT !.now = @ + 1]
  /\ UNCHANGED <<jtiCache, isActive, nodeEnv, pc, req, res, passes, result, scrapingVars>>

NextLogin ==
  \/ \E l \in Logins :
       \/ LoginArrives(l)
       \/ UserSelected(l)
       \/ PasswordCompared(l)
       \/ CountersUpdated(l)
       \/ LoginFails(l)
  \/ Tick

SpecLogin == InitLogin /\ [][NextLogin]_vars

(***************************************************************************)
(* C32: the account is locked after MAX_LOGIN_ATTEMPTS failed attempts, a  *)
(* locked account answers 423 without comparing the password, a successful *)
(* login resets the counters, and also under concurrent logins no more     *)
(* than MAX_LOGIN_ATTEMPTS wrong passwords are compared before the lock    *)
(* takes effect.  The last part fails: the handlers read the row before    *)
(* any of them writes it, so each of them compares its password.           *)
(***************************************************************************)
C32_AtMostMaxWrongPasswordsCompared ==
  call.wrongCompared <= MAX_LOGIN_ATTEMPTS

\* the parts of C32 that hold: the row has a lock exactly when its counter is at
\* the maximum, a handler that read a locked row answers 423 and compares nothing,
\* and the handler of a successful login writes zero and NULL
C32_LockoutOfOneHandler ==
  /\ call.login_attempts >= MAX_LOGIN_ATTEMPTS <=> call.locked_until # 0
  /\ \A l \in Logins :
       /\ result[l].at \in {"compare", "update"} =>
            result[l].locked_until = 0 \/ result[l].locked_until <= call.now
       /\ result[l].at = "update" /\ result[l].credentials = "correct password" =>
            result[l].attempts = 0 /\ result[l].lockedUntil = 0
       /\ result[l].status = 200 => result[l].credentials = "correct password"

\* three handlers hold wrong passwords bcrypt has compared, none has written yet
C32_ThreeComparedBeforeAnyWrite ==
  /\ call.wrongCompared = 3 /\ call.login_attempts = 0 /\ call.locked_until = 0
  /\ \A l \in Logins : result[l].at = "update" /\ result[l].attempts = 1


(***************************************************************************)
(* A session and its logout (SpecSession).  The session is the one /login  *)
(* opened for device key 1: its access token is IssuedToken(1), its        *)
(* refresh token is stored in refresh_tokens and held by the browser as a  *)
(* cookie.  The requests of the session are made one after the other       *)
(* (request 1 of the model) and pass authenticateToken as in Spec, for the *)
(* routes of Spec and for POST /auth/logout.  result holds:                *)
(*   is_revoked   refresh_tokens.is_revoked of the row of the session      *)
(*   cookie       the browser holds the refreshToken cookie                *)
(*   loggedOut    history: a logout of the session was answered 200        *)
(*   refresh      the status /refresh answered last, 0 before any          *)
(*   refreshedAfterLogout   history: /refresh answered 200 after that      *)
(*   refreshedAfterRevoked  history: /refresh answered 200 after the row   *)
(*                was revoked                                              *)
(***************************************************************************)
POST == <<"P","O","S","T">>
LogoutRoute == [method |-> POST, originalUrl |-> "/api/auth/logout"]
SessionRoutes == Routes \cup {LogoutRoute}
\* the device key and the user of the session
SessionKey == 1

InitSession ==
  /\ jtiCache = {}
  /\ isActive = [k \in DeviceKeyIds |-> TRUE]
  /\ nodeEnv = "development"
  /\ pc = [r \in Requests |-> "idle"]
  /\ req = [r \in Requests |-> IdleRequest]
  /\ res = [r \in Requests |-> NoResponse]
  /\ passes = [j \in 0..NumJti |-> 0]
  /\ requestPatterns = NoPattern
  /\ client = NoClient
  /\ call = NoCall
  /\ result = [is_revoked |-> FALSE, cookie |-> TRUE, loggedOut |-> FALSE, refresh |-> 0,
               refreshedAfterLogout |-> FALSE, refreshedAfterRevoked |-> FALSE]

\* authenticateToken for the next request of the session, a segment at a time
Authenticate ==
  \/ AuthStart(1)
  \/ LookupOf(1, SessionRoutes)
  \/ LookupFails(1)
  \/ VerifyDone(1)
  \/ TouchDone(1)
  \/ TouchFails(1)
  \/ Respond(1)

\* the route handlers of Spec behind next()
OtherRoute ==
  /\ req[1].route # LogoutRoute
  /\ RouteHandler(1)

\* routes/auth.js:298-313: POST /auth/logout behind authenticateToken: the row of
\* the refresh token of the cookie is revoked when the cookie came with the request
\* and the token belongs to req.user; the cookie is cleared; 200
Logout ==
  /\ pc[1] = "accepted" /\ req[1].route = LogoutRoute
  /\ result' = [result EXCEPT
       !.is_revoked = @ \/ (result.cookie /\ req[1].user = DeviceRow(SessionKey).user_id),
       !.cookie = FALSE,
       !.loggedOut = @ \/ req[1].authorization = IssuedToken(SessionKey)]
  /\ pc' = [pc EXCEPT ![1] = "idle"]
  /\ req' = [req EXCEPT ![1] = IdleRequest]
  /\ res' = [res EXCEPT ![1] = NoResponse]
  /\ UNCHANGED <<jtiCache, isActive, nodeEnv, passes, call, scrapingVars>>

\* routes/auth.js:303, 314-318: the update throws: 500, nothing revoked or cleared
LogoutFails ==
  /\ pc[1] = "accepted" /\ req[1].route = LogoutRoute
  /\ pc' = [pc EXCEPT ![1] = "idle"]
  /\ req' = [req EXCEPT ![1] = IdleRequest]
  /\ res' = [res EXCEPT ![1] = NoResponse]
  /\ UNCHANGED <<jtiCache, isActive, nodeEnv, passes, call, result, scrapingVars>>

\* routes/auth.js:260-268: the row of the refresh token is found
StoredTokenFound(is_revoked, active) == ~is_revoked /\ active[SessionKey]

\* routes/auth.js:239-295: POST /auth/refresh, from the browser (with its cookie, if
\* it has one) or from whoever else holds the refresh token of the session
Refresh ==
  /\ \E sender \in {"browser", "copy"} :
       LET refreshToken == sender = "copy" \/ result.cookie
           status == IF ~refreshToken THEN 401
                     ELSE IF StoredTokenFound(result.is_revoked, isActive) THEN 200
                     ELSE 401
       IN  result' = [result EXCEPT
             !.refresh = status,
             !.cookie = IF refreshToken /\ status = 401 /\ sender = "browser" THEN FALSE ELSE @,
             !.refreshedAfterLogout = @ \/ (result.loggedOut /\ status = 200),
             !.refreshedAfterRevoked = @ \/ (result.is_revoked /\ status = 200)]
  /\ UNCHANGED <<jtiCache, isActive, nodeEnv, pc, req, res, passes, call, scrapingVars>>

NextSession == Authenticate \/ OtherRoute \/ Logout \/ LogoutFails \/ Refresh

SpecSession == InitSession /\ [][NextSession]_vars

(***************************************************************************)
(* C39: after a successful logout of the session no later request with the *)
(* access token of the session is accepted by authenticateToken, and       *)
(* /refresh with the refresh token of the session never succeeds again.    *)
(* The first part fails: logout writes refresh_tokens only, which          *)
(* authenticateToken does not read.                                        *)
(***************************************************************************)
C39_NothingAcceptedAfterLogout ==
  result.loggedOut =>
    /\ ~(pc[1] = "accepted" /\ req[1].authorization = IssuedToken(SessionKey))
    /\ ~result.refreshedAfterLogout

\* the part of C39 that holds: once a logout has revoked the row of the refresh
\* token, the browser has no cookie and no /refresh is answered 200
C39_NoRefreshOnceRevoked ==
  result.is_revoked =>
    /\ ~result.cookie
    /\ ~result.refreshedAfterRevoked
    /\ ~StoredTokenFound(result.is_revoked, isActive)

\* after the logout, a request with the access token of the session reached next()
C39_AcceptedAfterLogout ==
  /\ result.loggedOut /\ result.is_revoked
  /\ pc[1] = "accepted" /\ req[1].authorization = IssuedToken(SessionKey)
  /\ req[1].user = DeviceRow(SessionKey).user_id

====
